---------------------------- MODULE Spec2Model ----------------------------
(***************************************************************************)
(* Model of python_scripts/TextAligner_standalone.py: the structural       *)
(* normalizer process_text_alignment (classify -> split repair -> marker   *)
(* merge -> heading/description merge -> format).                          *)
(*                                                                         *)
(* Lines are TLA+ strings and every regular expression of the source is    *)
(* evaluated character by character.  The alphabet of the model is ASCII:  *)
(* keywords and character classes of the source that need a non-ASCII      *)
(* character can never match an ASCII line, and are left out.              *)
(***************************************************************************)
EXTENDS Integers, Sequences, FiniteSets, TLC

(***************************************************************************)
(* Characters and strings                                                  *)
(***************************************************************************)
UpperChars == "ABCDEFGHIJKLMNOPQRSTUVWXYZ"
LowerChars == "abcdefghijklmnopqrstuvwxyz"

Ch(s, k) == SubSeq(s, k, k)

CharsOf(s) == {Ch(s, k) : k \in 1..Len(s)}

Whitespace == {" ", "\t"}
Digit == CharsOf("0123456789")
UpperLetter == CharsOf(UpperChars)
LowerLetter == CharsOf(LowerChars)
Letter == UpperLetter \cup LowerLetter
\* [ivxlcdm] and [IVXLCDM]; every pattern using them is compiled IGNORECASE
Roman == CharsOf("ivxlcdmIVXLCDM")
AlNum == Letter \cup Digit
Punct == CharsOf(".,:;()-'\"")
\* \S over the alphabet of the model
NonSpace == Letter \cup Digit \cup Punct

IndexIn(s, c) == CHOOSE k \in 1..Len(s) : Ch(s, k) = c

lower_char(c) == IF c \in UpperLetter THEN Ch(LowerChars, IndexIn(UpperChars, c)) ELSE c

upper_char(c) == IF c \in LowerLetter THEN Ch(UpperChars, IndexIn(LowerChars, c)) ELSE c

\* the characters of s from the k-th on, lower-cased
RECURSIVE lower_from(_, _)
lower_from(s, k) ==
    IF k > Len(s) THEN "" ELSE lower_char(Ch(s, k)) \o lower_from(s, k + 1)

\* str.lower()
str_lower(s) == lower_from(s, 1)

\* the characters of s from the k-th on, upper-cased
RECURSIVE upper_from(_, _)
upper_from(s, k) ==
    IF k > Len(s) THEN "" ELSE upper_char(Ch(s, k)) \o upper_from(s, k + 1)

\* str.upper()
str_upper(s) == upper_from(s, 1)

MinOf(S) == CHOOSE x \in S : \A y \in S : x <= y
MaxOf(S) == CHOOSE x \in S : \A y \in S : x >= y

NonSpaceIdx(s) == {k \in 1..Len(s) : Ch(s, k) \notin Whitespace}

\* str.strip()
strip(s) ==
    IF NonSpaceIdx(s) = {} THEN ""
    ELSE SubSeq(s, MinOf(NonSpaceIdx(s)), MaxOf(NonSpaceIdx(s)))

startswith(s, prefix) == Len(prefix) <= Len(s) /\ SubSeq(s, 1, Len(prefix)) = prefix

endswith(s, suffix) ==
    Len(suffix) <= Len(s) /\ SubSeq(s, Len(s) - Len(suffix) + 1, Len(s)) = suffix

\* s.split(None, 1)[0] of a string that holds a non-space character
first_word(s) ==
    LET t == strip(s)
        sp == {k \in 1..Len(t) : Ch(t, k) \in Whitespace}
    IN  IF sp = {} THEN t ELSE SubSeq(t, 1, MinOf(sp) - 1)

(***************************************************************************)
(* Regular expressions.  A pattern maps a set P of positions (the index of *)
(* the next character to read) to the set of positions where a match of    *)
(* the pattern begun in P can end, so alternation and backtracking are     *)
(* the union of the outcomes.                                              *)
(***************************************************************************)
Pos(s) == 1..(Len(s) + 1)

AllIn(s, a, b, C) == \A k \in a..b : Ch(s, k) \in C

\* C*  (the start set P is bound once, as 'from', in each pattern)
Star(s, P, C) ==
    UNION {{q \in Pos(s) : \E p \in from : p <= q /\ AllIn(s, p, q - 1, C)} : from \in {P}}

\* C+
Plus(s, P, C) ==
    UNION {{q \in Pos(s) : \E p \in from : p < q /\ AllIn(s, p, q - 1, C)} : from \in {P}}

\* C{lo,hi}
Rep(s, P, C, lo, hi) ==
    UNION {{q \in Pos(s) : \E p \in from : /\ q - p >= lo
                                          /\ q - p <= hi
                                          /\ p <= q
                                          /\ AllIn(s, p, q - 1, C)} : from \in {P}}

\* a literal character
Lit(s, P, c) == {p + 1 : p \in {x \in P : x <= Len(s) /\ Ch(s, x) = c}}

\* $
AtEnd(s, P) == (Len(s) + 1) \in P

\* ^\s*
Lead(s) == Star(s, {1}, Whitespace)

\* (?:\.\d+)* read from m up to q
DotGroups(s, m, q) ==
    \/ m = q
    \/ /\ m < q
       /\ Ch(s, m) = "."
       /\ AllIn(s, m, q - 1, Digit \cup {"."})
       /\ Ch(s, q - 1) \in Digit
       /\ \A k \in m..(q - 2) : ~(Ch(s, k) = "." /\ Ch(s, k + 1) = ".")

DotGroupsFrom(s, P) ==
    UNION {{q \in Pos(s) : \E m \in from : m <= q /\ DotGroups(s, m, q)} : from \in {P}}

\* (?:\d+(?:\.\d+)*\.|\(\d+\))
NumMarkerHead(s, P) ==
    Lit(s, DotGroupsFrom(s, Plus(s, P, Digit)), ".")
        \cup Lit(s, Plus(s, Lit(s, P, "("), Digit), ")")

\* (?: \([a-zA-Z]{1,2}\) | \([ivxlcdm]+\) | [a-zA-Z]{1,2}\. | [ivxlcdm]+\. )
EnumMarkerHead(s, P) ==
    Lit(s, Rep(s, Lit(s, P, "("), Letter, 1, 2) \cup Plus(s, Lit(s, P, "("), Roman), ")")
        \cup Lit(s, Rep(s, P, Letter, 1, 2) \cup Plus(s, P, Roman), ".")

RE_FOOTNOTE_BLOCK(s) == Lit(s, Plus(s, Plus(s, Lead(s), Digit), Whitespace), "\"") # {}

RE_NUMBERED_ITEM(s) ==
    Plus(s, Plus(s, NumMarkerHead(s, Lead(s)), Whitespace), NonSpace) # {}

\* RE_NUM_MARKER without the parenthesised alternative
RE_NUM_MARKER_without_paren(s) ==
    AtEnd(s, Star(s, DotGroupsFrom(s, Lead(s)), Whitespace))

RE_NUM_MARKER(s) == AtEnd(s, Star(s, NumMarkerHead(s, Lead(s)), Whitespace))

RE_NUMBERED_PARA_HEAD_MARKER(s) ==
    AtEnd(s, Star(s, Lit(s, Plus(s, Lead(s), Digit) \cup Plus(s, Lead(s), Roman), "."),
                  Whitespace))

RE_ENUM_ITEM(s) ==
    Plus(s, Plus(s, EnumMarkerHead(s, Lead(s)), Whitespace), NonSpace) # {}

RE_ENUM_MARKER(s) == AtEnd(s, Star(s, EnumMarkerHead(s, Lead(s)), Whitespace))

RE_ITEM_MARKER_START(s) ==
    (Lit(s, Plus(s, Rep(s, Lead(s), {"("}, 0, 1), AlNum), ")")
        \cup Lit(s, Rep(s, Lead(s), Letter, 1, 2) \cup Plus(s, Lead(s), Roman)
                        \cup Plus(s, Lead(s), Digit), ".")) # {}

\* positions after group 1 ( \d+\. ) and after group 2 ( \([a-zA-Z]{1,2}\) )
SplitGroup1End(s) == Lit(s, Plus(s, Lead(s), Digit), ".")

SplitGroup2End(s) ==
    Lit(s, Rep(s, Lit(s, Plus(s, SplitGroup1End(s), Whitespace), "("), Letter, 1, 2), ")")

\* \s+ after group 2; group 3 ( .* ) and $ match whatever follows
RE_SPLIT_NUMBER_ENUM(s) == Plus(s, SplitGroup2End(s), Whitespace) # {}

RE_HEADING_ONLY_KEY_ID(s) ==
    LET id == DotGroupsFrom(s, Plus(s, Plus(s, Plus(s, Lead(s), Letter), Whitespace),
                                    Digit \cup Roman))
    IN  AtEnd(s, Star(s, Rep(s, Star(s, id, Whitespace), {":", ".", "-"}, 0, 1), Whitespace))

\* ^\s+\d+\s*$ : RE_STANDALONE_NUMBER with \s+ written for \s*
RE_STANDALONE_NUMBER_needs_space(s) ==
    AtEnd(s, Star(s, Plus(s, Plus(s, {1}, Whitespace), Digit), Whitespace))

RE_STANDALONE_NUMBER(s) == AtEnd(s, Star(s, Plus(s, Lead(s), Digit), Whitespace))

(***************************************************************************)
(* Keyword registry (ASCII entries), lower-cased as DETECT_KEYWORDS_* are  *)
(***************************************************************************)
HEADING_KEYWORDS_UPPER_CANONICAL ==
    {"part", "book", "annex", "appendix", "schedule", "preamble", "chapter", "division",
     "subpart", "parte", "libro", "anexo", "subparte", "livro", "partie", "livre",
     "annexe", "appendice", "chapitre", "sous-partie", "teil", "buch", "anhang",
     "anlage", "kapitel", "unterteil"}

HEADING_KEYWORDS_TITLE_CANONICAL ==
    {"title", "section", "subsection", "article", "clause", "regulation", "rule", "order",
     "paragraph", "reglamento", "regla", "orden", "apartado", "artigo", "regulamento",
     "regra", "ordem", "art.", "titre", "sous-section", "ordonnance", "paragraphe",
     "titel", "abschnitt", "unterabschnitt", "artikel", "klausel", "regelung",
     "verordnung", "regel", "anordnung", "absatz"}

EXTRA_KEYWORDS_EITHER_CASE == {"section", "article", "title", "artigo", "chapter", "division"}

DETECT_KEYWORDS_UPPER == HEADING_KEYWORDS_UPPER_CANONICAL \cup EXTRA_KEYWORDS_EITHER_CASE

DETECT_KEYWORDS_TITLE == HEADING_KEYWORDS_TITLE_CANONICAL \cup EXTRA_KEYWORDS_EITHER_CASE

ALL_DETECT_KEYWORDS == DETECT_KEYWORDS_UPPER \cup DETECT_KEYWORDS_TITLE

AMBIGUOUS_TITLE_KEYWORDS == {"rule", "order", "paragraph", "clause", "regulation"}

PREAMBLE_INTRO_PHRASES == {"Members,"}

PREAMBLE_CLAUSE_STARTERS ==
    {"Noting", "Considering", "Recognizing", "Recognising", "Recalling", "Desiring",
     "Affirming", "Having carried out", "Striving", "Believing", "Whereas",
     "The Governments of", "The Parties", "Conscious of", "Mindful of", "Reaffirming"}

DETECT_TRANSITIONAL_PHRASES_LOWER ==
    {"hereby agree as follows:", "have agreed as follows:",
     "the parties hereby agree as follows:", "agree as follows:",
     "adopt the following provisions:"}

(***************************************************************************)
(* Line types                                                              *)
(***************************************************************************)
LT_PREAMBLE_HEAD == "PREAMBLE_HEAD"
LT_PREAMBLE_INTRO == "PREAMBLE_INTRO"
LT_PREAMBLE_CLAUSE == "PREAMBLE_CLAUSE"
LT_TRANSITIONAL == "TRANSITIONAL"
LT_HEADING_UPPER == "HEADING_UPPER"
LT_HEADING_TITLE == "HEADING_TITLE"
LT_NUMBERED_PARA_HEAD == "NUMBERED_PARA_HEAD"
LT_ENUM_MARKER == "ENUM_MARKER"
LT_NUM_MARKER == "NUM_MARKER"
LT_ENUM_ITEM == "ENUM_ITEM"
LT_NUMBERED_ITEM == "NUMBERED_ITEM"
LT_FOOTNOTE_BLOCK == "FOOTNOTE_BLOCK"
LT_ENDS_COLON == "ENDS_COLON"
LT_REGULAR == "REGULAR"
LT_BLANK == "BLANK"
LT_SPLIT_MARKER_PARENT == "SPLIT_MARKER_PARENT"
\* Python's None, for the two "last type" accumulators and heading_type
None == "None"

MAJOR_STRUCTURAL_TYPES ==
    {LT_HEADING_UPPER, LT_HEADING_TITLE, LT_PREAMBLE_HEAD, LT_TRANSITIONAL,
     LT_SPLIT_MARKER_PARENT}

(***************************************************************************)
(* identify_line_type                                                      *)
(***************************************************************************)
heading_contains_only_keyword_and_id(heading_text) ==
    RE_HEADING_ONLY_KEY_ID(strip(heading_text))

\* is_preamble_context with PREAMBLE_INTRO left out of the list
is_preamble_context_without_intro(previous_line_type) ==
    previous_line_type \in {LT_PREAMBLE_HEAD, LT_PREAMBLE_CLAUSE}

\* is_preamble_context that takes a REGULAR line for preamble text too
is_preamble_context_with_regular(previous_line_type) ==
    previous_line_type \in {LT_PREAMBLE_HEAD, LT_PREAMBLE_INTRO, LT_PREAMBLE_CLAUSE,
                            LT_REGULAR}

\* is_preamble_context that stays true after a heading
is_preamble_context_after_headings(previous_line_type) ==
    previous_line_type \in {LT_PREAMBLE_HEAD, LT_PREAMBLE_INTRO, LT_PREAMBLE_CLAUSE,
                            LT_HEADING_UPPER, LT_HEADING_TITLE}

is_preamble_context(previous_line_type) ==
    previous_line_type \in {LT_PREAMBLE_HEAD, LT_PREAMBLE_INTRO, LT_PREAMBLE_CLAUSE}

\* the loop over PREAMBLE_CLAUSE_STARTERS
preamble_clause_start(stripped) ==
    \E word \in PREAMBLE_CLAUSE_STARTERS :
        /\ startswith(stripped, word \o " ")
        /\ ~RE_ENUM_ITEM(stripped)
        /\ ~RE_NUMBERED_ITEM(stripped)
        /\ str_lower(first_word(stripped)) \notin ALL_DETECT_KEYWORDS

\* keyword_matches with 'kw_lower in lower_stripped' for the startswith test
keyword_matches_anywhere(stripped, lower_stripped) ==
    {kw \in ALL_DETECT_KEYWORDS :
        \E p \in 1..(Len(stripped) - Len(kw) + 1) :
            /\ SubSeq(lower_stripped, p, p + Len(kw) - 1) = kw
            /\ \/ Len(stripped) = p + Len(kw) - 1
               \/ Ch(stripped, p + Len(kw)) \in Whitespace
               \/ Ch(stripped, p + Len(kw)) = "-"}

\* the keywords the loop over ALL_DETECT_KEYWORDS accepts for the line
keyword_matches(stripped, lower_stripped) ==
    {kw \in ALL_DETECT_KEYWORDS :
        /\ startswith(lower_stripped, kw)
        /\ \/ Len(stripped) = Len(kw)
           \/ Ch(stripped, Len(kw) + 1) \in Whitespace
           \/ Ch(stripped, Len(kw) + 1) = "-"}

\* the keywords the loop can end with: ALL_DETECT_KEYWORDS is a set, read in
\* an order that differs from run to run, and the loop keeps the first of the
\* longest accepted keywords it meets
best_kw_candidates(stripped) ==
    LET matches == keyword_matches(stripped, str_lower(stripped))
        longest == MaxOf({Len(kw) : kw \in matches})
    IN  IF str_lower(first_word(stripped)) \notin ALL_DETECT_KEYWORDS \/ matches = {}
        THEN {}
        ELSE {kw \in matches : Len(kw) = longest}

\* best_kw_lower: the longest accepted keyword, "" when there is none
best_kw_of(candidates) ==
    IF candidates = {} THEN "" ELSE CHOOSE kw \in candidates : TRUE

best_kw_lower(stripped) == best_kw_of(best_kw_candidates(stripped))

\* lines 149-151 with the title set consulted first
heading_type_of_keyword_title_first(kw) ==
    IF kw = "" THEN None
    ELSE IF kw \in DETECT_KEYWORDS_TITLE THEN LT_HEADING_TITLE
    ELSE IF kw \in DETECT_KEYWORDS_UPPER THEN LT_HEADING_UPPER
    ELSE LT_HEADING_TITLE

\* lines 149-151
heading_type_of_keyword(kw) ==
    IF kw = "" THEN None
    ELSE IF kw \in DETECT_KEYWORDS_UPPER THEN LT_HEADING_UPPER
    ELSE IF kw \in DETECT_KEYWORDS_TITLE THEN LT_HEADING_TITLE
    ELSE LT_HEADING_TITLE

\* heading_type after the demotions of lines 152-158
heading_type(stripped) ==
    LET first_word_lower == str_lower(first_word(stripped))
        best == best_kw_lower(stripped)
        candidate == heading_type_of_keyword(best)
        looks_like_item == RE_ENUM_ITEM(stripped) \/ RE_NUMBERED_ITEM(stripped)
        is_short_keyword == Len(best) <= 2
    IN  IF candidate = None THEN None
        ELSE IF looks_like_item /\ is_short_keyword THEN None
        ELSE IF /\ first_word_lower \in AMBIGUOUS_TITLE_KEYWORDS
                /\ ~(RE_HEADING_ONLY_KEY_ID(stripped) \/ str_lower(stripped) = first_word_lower)
             THEN None
        ELSE candidate

identify_line_type(line, previous_line_type) ==
    LET stripped == strip(line)
        lower_stripped == str_lower(stripped)
        heading == heading_type(stripped)
    IN  IF stripped = "" THEN LT_BLANK
        ELSE IF RE_STANDALONE_NUMBER(stripped) THEN LT_BLANK
        ELSE IF lower_stripped = "preamble" THEN LT_PREAMBLE_HEAD
        ELSE IF stripped \in PREAMBLE_INTRO_PHRASES THEN LT_PREAMBLE_INTRO
        ELSE IF lower_stripped \in DETECT_TRANSITIONAL_PHRASES_LOWER THEN LT_TRANSITIONAL
        ELSE IF is_preamble_context(previous_line_type) /\ preamble_clause_start(stripped)
             THEN LT_PREAMBLE_CLAUSE
        ELSE IF heading # None THEN heading
        ELSE IF RE_ENUM_MARKER(stripped) THEN LT_ENUM_MARKER
        ELSE IF RE_NUMBERED_PARA_HEAD_MARKER(stripped) THEN LT_NUMBERED_PARA_HEAD
        ELSE IF RE_NUM_MARKER(stripped) THEN LT_NUM_MARKER
        ELSE IF RE_FOOTNOTE_BLOCK(stripped) THEN LT_FOOTNOTE_BLOCK
        ELSE IF RE_ENUM_ITEM(stripped) THEN LT_ENUM_ITEM
        ELSE IF RE_NUMBERED_ITEM(stripped) THEN LT_NUMBERED_ITEM
        ELSE IF endswith(stripped, ":") THEN LT_ENDS_COLON
        ELSE IF /\ is_preamble_context(previous_line_type)
                /\ ~RE_NUMBERED_PARA_HEAD_MARKER(first_word(stripped) \o ".")
             THEN LT_PREAMBLE_CLAUSE
        ELSE LT_REGULAR

(***************************************************************************)
(* The inputs of the model                                                 *)
(***************************************************************************)
\* the longest input, in lines
MaxLines == 3

\* the lines an input is made of: one line of every kind the passes treat apart
Vocabulary ==
    {" ", "42", "PART I", "Rule 5", "General Provisions", "(a)", "6. (a) Split content",
     "3.", "Preamble", "Noting the progress made,"}

\* the longest input over the wide vocabulary, in lines
MaxWideLines == 2

\* lines of every line type, for the properties of one record and its neighbour
WideVocabulary ==
    {"", "42", "PART I", "Article 1", "Chapter 3 - Scope", "Rule 5", "Rule of law",
     "General Provisions", "First item text", "(a)", "(b) Second item",
     "6. (a) Split content", "3.", "(2)", "IV.", "1.2.", "Preamble", "PREAMBLE",
     "Members,", "MEMBERS,",
     "Noting the progress made,", "Have agreed as follows:", "1 \"Note text\"",
     "Definitions:", "2. Numbered text", "Whereas the Parties agree:",
     "Part I of Rule 5"}

\* identify_line_type tabulated over the lines and previous types of the
\* model: the classification of a line is evaluated once, not once per state
LineTypes ==
    {LT_PREAMBLE_HEAD, LT_PREAMBLE_INTRO, LT_PREAMBLE_CLAUSE, LT_TRANSITIONAL,
     LT_HEADING_UPPER, LT_HEADING_TITLE, LT_NUMBERED_PARA_HEAD, LT_ENUM_MARKER,
     LT_NUM_MARKER, LT_ENUM_ITEM, LT_NUMBERED_ITEM, LT_FOOTNOTE_BLOCK, LT_ENDS_COLON,
     LT_REGULAR, LT_BLANK, LT_SPLIT_MARKER_PARENT}

LineTypeTable ==
    [line \in Vocabulary \cup WideVocabulary |->
        [previous_line_type \in LineTypes \cup {None} |->
            identify_line_type(line, previous_line_type)]]

(***************************************************************************)
(* LineRecord and the classification loop (with split repair)              *)
(***************************************************************************)
LineRecord(text, type, original_index, is_heading, was_split) ==
    [text |-> text, type |-> type, original_index |-> original_index,
     merged_into_prev |-> FALSE, consumes_next |-> FALSE,
     is_heading |-> is_heading, was_split |-> was_split]

\* group(1), group(2) and group(3) of RE_SPLIT_NUMBER_ENUM, each stripped
split_groups(stripped) ==
    LET e1 == MaxOf(SplitGroup1End(stripped))
        e2 == MaxOf(SplitGroup2End(stripped))
    IN  [num_marker |-> strip(SubSeq(stripped, 1, e1 - 1)),
         enum_marker |-> strip(SubSeq(stripped, e1, e2 - 1)),
         content |-> strip(SubSeq(stripped, e2, Len(stripped)))]

\* the records one split line gives: the number marker, then the enum item
split_records(stripped, original_index) ==
    LET g == split_groups(stripped)
    IN  << LineRecord(g.num_marker, LT_SPLIT_MARKER_PARENT, original_index, FALSE, TRUE),
           LineRecord(g.enum_marker \o " " \o g.content, LT_ENUM_ITEM, original_index,
                      FALSE, TRUE) >>

\* records_of that makes a record of a digits-only line too
records_of_keeps_page_numbers(stripped, line_type) ==
    IF stripped = "" THEN <<>>
    ELSE IF RE_SPLIT_NUMBER_ENUM(stripped) THEN split_records(stripped, 0)
    ELSE << LineRecord(stripped, line_type, 0,
                       line_type \in {LT_HEADING_UPPER, LT_HEADING_TITLE}, FALSE) >>

\* lines 179-198: the records one line gives after a line of the given type,
\* their original_index left at 0
records_of(stripped, line_type) ==
    IF stripped = "" THEN <<>>
    ELSE IF RE_SPLIT_NUMBER_ENUM(stripped) THEN split_records(stripped, 0)
    ELSE IF line_type = LT_BLANK THEN <<>>
    ELSE << LineRecord(stripped, line_type, 0,
                       line_type \in {LT_HEADING_UPPER, LT_HEADING_TITLE}, FALSE) >>

line_records(line, previous_line_type) ==
    records_of(strip(line), LineTypeTable[line][previous_line_type])

LineRecordsTable ==
    [line \in Vocabulary \cup WideVocabulary |->
        [previous_line_type \in LineTypes \cup {None} |->
            line_records(line, previous_line_type)]]

\* one iteration of the loop over raw_lines_unicode; acc = [data, last]
append_records(acc, records, original_index) ==
    IF records = <<>> THEN acc
    ELSE [data |-> acc.data \o
                   [k \in 1..Len(records) |->
                       [records[k] EXCEPT !.original_index = original_index]],
          last |-> records[Len(records)].type]

classify_line(acc, line, original_index) ==
    append_records(acc, LineRecordsTable[line][acc.last], original_index)

(***************************************************************************)
(* Marker merge pass                                                       *)
(***************************************************************************)
\* mergeable_marker_types without the numbered paragraph head
mergeable_marker_types_without_para_head == {LT_ENUM_MARKER, LT_NUM_MARKER}

mergeable_marker_types == {LT_ENUM_MARKER, LT_NUM_MARKER, LT_NUMBERED_PARA_HEAD}

\* non_merge_types without the two item types
non_merge_types_without_items ==
    {LT_HEADING_UPPER, LT_HEADING_TITLE, LT_PREAMBLE_HEAD, LT_PREAMBLE_INTRO,
     LT_PREAMBLE_CLAUSE, LT_TRANSITIONAL, LT_NUMBERED_PARA_HEAD, LT_ENUM_MARKER,
     LT_NUM_MARKER, LT_FOOTNOTE_BLOCK, LT_SPLIT_MARKER_PARENT}

\* non_merge_types without the split parent
non_merge_types_without_split_parent ==
    {LT_HEADING_UPPER, LT_HEADING_TITLE, LT_PREAMBLE_HEAD, LT_PREAMBLE_INTRO,
     LT_PREAMBLE_CLAUSE, LT_TRANSITIONAL, LT_NUMBERED_PARA_HEAD, LT_ENUM_MARKER,
     LT_NUM_MARKER, LT_ENUM_ITEM, LT_NUMBERED_ITEM, LT_FOOTNOTE_BLOCK}

non_merge_types ==
    {LT_HEADING_UPPER, LT_HEADING_TITLE, LT_PREAMBLE_HEAD, LT_PREAMBLE_INTRO,
     LT_PREAMBLE_CLAUSE, LT_TRANSITIONAL, LT_NUMBERED_PARA_HEAD, LT_ENUM_MARKER,
     LT_NUM_MARKER, LT_ENUM_ITEM, LT_NUMBERED_ITEM, LT_FOOTNOTE_BLOCK,
     LT_SPLIT_MARKER_PARENT}

\* the first j > i with merged_into_prev false; 0 stands for the code's -1
next_unmerged(data, i) ==
    LET S == {j \in (i + 1)..Len(data) : ~data[j].merged_into_prev}
    IN  IF S = {} THEN 0 ELSE MinOf(S)

\* index of next_text_info, 0 when it stays None
next_text_index(data, i) ==
    LET next_line_index == next_unmerged(data, i)
    IN  IF /\ next_line_index # 0
           /\ data[next_line_index].type \notin non_merge_types
           /\ data[next_line_index].text # ""
        THEN next_line_index
        ELSE 0

\* escalated_type with the two item types exchanged
escalated_type_swapped(type) ==
    IF type = LT_ENUM_MARKER THEN LT_NUMBERED_ITEM
    ELSE IF type \in {LT_NUM_MARKER, LT_NUMBERED_PARA_HEAD} THEN LT_ENUM_ITEM
    ELSE type

escalated_type(type) ==
    IF type = LT_ENUM_MARKER THEN LT_ENUM_ITEM
    ELSE IF type \in {LT_NUM_MARKER, LT_NUMBERED_PARA_HEAD} THEN LT_NUMBERED_ITEM
    ELSE type

\* marker_absorb with the absorbed text forgotten
marker_absorb_drops_text(data, i, j) ==
    [data EXCEPT ![i].type = escalated_type(data[i].type),
                 ![i].consumes_next = TRUE,
                 ![j].merged_into_prev = TRUE]

\* marker_absorb that leaves the marker's consumes_next unset
marker_absorb_without_consumes_next(data, i, j) ==
    [data EXCEPT ![i].text = data[i].text \o " " \o data[j].text,
                 ![i].type = escalated_type(data[i].type),
                 ![j].merged_into_prev = TRUE]

\* lines 218-223: the records after record i absorbed record j
marker_absorb(data, i, j) ==
    [data EXCEPT ![i].text = data[i].text \o " " \o data[j].text,
                 ![i].type = escalated_type(data[i].type),
                 ![i].consumes_next = TRUE,
                 ![j].merged_into_prev = TRUE]

\* one iteration of the while loop of the pass; gives [data, i]
marker_merge_step(data, i) ==
    LET current_info == data[i]
        j == next_text_index(data, i)
    IN  IF current_info.merged_into_prev THEN [data |-> data, i |-> i + 1]
        ELSE IF /\ current_info.type \in mergeable_marker_types
                /\ current_info.type # LT_SPLIT_MARKER_PARENT
                /\ j # 0
             THEN [data |-> marker_absorb(data, i, j), i |-> i + 2]
        ELSE [data |-> data, i |-> i + 1]

(***************************************************************************)
(* Heading/description merge pass                                          *)
(***************************************************************************)
\* lines 248-250: the candidate description is refused
desc_refused(potential_desc_text) ==
    \/ potential_desc_text = ""
    \/ RE_ITEM_MARKER_START(potential_desc_text)
    \/ str_lower(first_word(potential_desc_text)) \in ALL_DETECT_KEYWORDS

\* line 250: taking the first word of a description without one raises
\* IndexError (s.split(None, 1)[0] of a string with no non-space character)
desc_first_word_raises(potential_desc_text) ==
    /\ potential_desc_text # ""
    /\ ~RE_ITEM_MARKER_START(potential_desc_text)
    /\ NonSpaceIdx(potential_desc_text) = {}

\* the texts a record can hold when the heading scan reads it: the text of a
\* classified line, or a marker followed by the text it absorbed
texts_of(table) ==
    UNION {UNION {{table[line][t][k].text : k \in 1..Len(table[line][t])} :
                  t \in DOMAIN table[line]} :
           line \in DOMAIN table}

ClassifiedTexts == texts_of(LineRecordsTable)

marker_texts(texts) ==
    {text \in texts : RE_ENUM_MARKER(text) \/ RE_NUM_MARKER(text)
                          \/ RE_NUMBERED_PARA_HEAD_MARKER(text)}

MarkerTexts == marker_texts(ClassifiedTexts)

record_texts(texts) ==
    texts \cup {a \o " " \o b : a \in marker_texts(texts), b \in texts}

RecordTexts == record_texts(ClassifiedTexts)

\* what the heading scan asks of a text (lines 232, 248-250), per text
HeadingScanTable ==
    [text \in RecordTexts |->
        [only_keyword_and_id |-> heading_contains_only_keyword_and_id(text),
         refused |-> desc_refused(text),
         raises |-> desc_first_word_raises(text)]]

\* should_merge that refuses only when a following record exists and is major
should_merge_without_third(data, after_desc_index) ==
    IF after_desc_index = 0 THEN TRUE
    ELSE data[after_desc_index].type \notin MAJOR_STRUCTURAL_TYPES

\* should_merge that asks for a following record, of any type
should_merge_ignores_major(data, after_desc_index) ==
    after_desc_index # 0

\* lines 259-265; after_desc_index = 0 stands for the code's -1
should_merge(data, after_desc_index) ==
    IF after_desc_index = 0 THEN FALSE
    ELSE data[after_desc_index].type \notin MAJOR_STRUCTURAL_TYPES

\* heading_absorb that retypes the heading as a title heading
heading_absorb_retypes(data, i, d) ==
    [data EXCEPT ![i].text = data[i].text \o " " \o data[d].text,
                 ![i].type = LT_HEADING_TITLE,
                 ![i].consumes_next = TRUE,
                 ![d].merged_into_prev = TRUE]

\* heading_absorb that takes the record after the description as well
heading_absorb_takes_two(data, i, d) ==
    IF d < Len(data)
    THEN [data EXCEPT ![i].text = data[i].text \o " " \o data[d].text
                                      \o " " \o data[d + 1].text,
                      ![i].consumes_next = TRUE,
                      ![d].merged_into_prev = TRUE,
                      ![d + 1].merged_into_prev = TRUE]
    ELSE [data EXCEPT ![i].text = data[i].text \o " " \o data[d].text,
                      ![i].consumes_next = TRUE,
                      ![d].merged_into_prev = TRUE]

\* lines 269-271: the records after heading i absorbed description d
heading_absorb(data, i, d) ==
    [data EXCEPT ![i].text = data[i].text \o " " \o data[d].text,
                 ![i].consumes_next = TRUE,
                 ![d].merged_into_prev = TRUE]

\* heading_merge_step whose first 'continue' is taken without i += 1
heading_merge_step_stalls(data, i) ==
    LET current_info == data[i]
        potential_desc_index == next_unmerged(data, i)
        after_desc_index == next_unmerged(data, potential_desc_index)
    IN  IF current_info.merged_into_prev \/ ~current_info.is_heading
        THEN [data |-> data, i |-> i]
        ELSE IF ~HeadingScanTable[current_info.text].only_keyword_and_id
        THEN [data |-> data, i |-> i + 1]
        ELSE IF potential_desc_index = 0
        THEN [data |-> data, i |-> i + 1]
        ELSE IF HeadingScanTable[data[potential_desc_index].text].refused
        THEN [data |-> data, i |-> i + 1]
        ELSE IF /\ should_merge(data, after_desc_index)
                /\ data[potential_desc_index].type \in {LT_REGULAR, LT_ENDS_COLON}
        THEN [data |-> heading_absorb(data, i, potential_desc_index), i |-> i + 2]
        ELSE [data |-> data, i |-> i + 1]

\* one iteration of the while loop of the pass; gives [data, i]
heading_merge_step(data, i) ==
    LET current_info == data[i]
        potential_desc_index == next_unmerged(data, i)
        after_desc_index == next_unmerged(data, potential_desc_index)
    IN  IF current_info.merged_into_prev \/ ~current_info.is_heading
        THEN [data |-> data, i |-> i + 1]
        ELSE IF ~HeadingScanTable[current_info.text].only_keyword_and_id
        THEN [data |-> data, i |-> i + 1]
        ELSE IF potential_desc_index = 0
        THEN [data |-> data, i |-> i + 1]
        ELSE IF HeadingScanTable[data[potential_desc_index].text].refused
        THEN [data |-> data, i |-> i + 1]
        ELSE IF /\ should_merge(data, after_desc_index)
                /\ data[potential_desc_index].type \in {LT_REGULAR, LT_ENDS_COLON}
        THEN [data |-> heading_absorb(data, i, potential_desc_index), i |-> i + 2]
        ELSE [data |-> data, i |-> i + 1]

(***************************************************************************)
(* Output formatter                                                        *)
(***************************************************************************)
RECURSIVE pop_trailing_blanks(_)
pop_trailing_blanks(output_list) ==
    IF output_list # <<>> /\ strip(output_list[Len(output_list)]) = ""
    THEN pop_trailing_blanks(SubSeq(output_list, 1, Len(output_list) - 1))
    ELSE output_list

\* ensure_blank_lines_before that adds nothing to an empty output
ensure_blank_lines_before_suppress_initial(output_list, n) ==
    LET popped == pop_trailing_blanks(output_list)
    IN  IF popped # <<>> THEN popped \o [k \in 1..n |-> ""] ELSE popped

ensure_blank_lines_before(output_list, n) ==
    LET can_add_initial == output_list = <<>>
        popped == pop_trailing_blanks(output_list)
    IN  IF popped # <<>> \/ (can_add_initial /\ n > 0)
        THEN popped \o [k \in 1..n |-> ""]
        ELSE popped

\* blank_lines_for with NUMBERED_PARA_HEAD treated as the headings are
blank_lines_for_numbered_as_heading(current_type) ==
    IF current_type \in {LT_PREAMBLE_HEAD, LT_TRANSITIONAL, LT_HEADING_UPPER,
                         LT_HEADING_TITLE, LT_FOOTNOTE_BLOCK, LT_NUMBERED_PARA_HEAD}
    THEN 2
    ELSE 0

\* the number of blank lines the formatter asks for before a record of the type
blank_lines_for(current_type) ==
    IF current_type \in {LT_PREAMBLE_HEAD, LT_TRANSITIONAL, LT_HEADING_UPPER,
                         LT_HEADING_TITLE, LT_FOOTNOTE_BLOCK}
    THEN 2
    ELSE IF current_type = LT_NUMBERED_PARA_HEAD THEN 1
    ELSE 0

\* emitted_text that upper-cases both heading types
emitted_text_upper_titles(current_type, text_to_add) ==
    IF current_type \in {LT_PREAMBLE_HEAD, LT_HEADING_UPPER, LT_HEADING_TITLE}
    THEN str_upper(text_to_add)
    ELSE text_to_add

\* the text the formatter appends for a record
emitted_text(current_type, text_to_add) ==
    IF current_type \in {LT_PREAMBLE_HEAD, LT_HEADING_UPPER}
    THEN str_upper(text_to_add)
    ELSE text_to_add

\* format_record whose BLANK branch appends an empty line every time
format_record_keeps_blanks(acc, line_info) ==
    IF line_info.merged_into_prev THEN acc
    ELSE IF line_info.type = LT_BLANK
    THEN [out |-> Append(acc.out, ""), last |-> LT_BLANK]
    ELSE [out |-> Append(IF blank_lines_for(line_info.type) > 0
                         THEN ensure_blank_lines_before(acc.out,
                                                        blank_lines_for(line_info.type))
                         ELSE acc.out,
                         emitted_text(line_info.type, line_info.text)),
          last |-> line_info.type]

\* format_record that closes a two-blank-line record with an empty line
format_record_blank_after_headings(acc, line_info) ==
    IF line_info.merged_into_prev THEN acc
    ELSE IF line_info.type = LT_BLANK
    THEN [out |-> IF acc.last # LT_BLANK THEN Append(acc.out, "") ELSE acc.out,
          last |-> LT_BLANK]
    ELSE [out |-> Append(IF blank_lines_for(line_info.type) > 0
                         THEN ensure_blank_lines_before(acc.out,
                                                        blank_lines_for(line_info.type))
                         ELSE acc.out,
                         emitted_text(line_info.type, line_info.text))
                  \o (IF blank_lines_for(line_info.type) = 2 THEN << "" >> ELSE << >>),
          last |-> line_info.type]

\* one iteration of the loop over processed_lines_data; acc = [out, last]
format_record(acc, line_info) ==
    IF line_info.merged_into_prev THEN acc
    ELSE IF line_info.type = LT_BLANK
    THEN [out |-> IF acc.last # LT_BLANK THEN Append(acc.out, "") ELSE acc.out,
          last |-> LT_BLANK]
    ELSE [out |-> Append(IF blank_lines_for(line_info.type) > 0
                         THEN ensure_blank_lines_before(acc.out,
                                                        blank_lines_for(line_info.type))
                         ELSE acc.out,
                         emitted_text(line_info.type, line_info.text)),
          last |-> line_info.type]

\* u"\n".join(output_lines)
RECURSIVE join_lines(_)
join_lines(lines) ==
    IF lines = <<>> THEN ""
    ELSE IF Len(lines) = 1 THEN lines[1]
    ELSE lines[1] \o "\n" \o join_lines(Tail(lines))

(***************************************************************************)
(* Exceptions of the passes                                                *)
(***************************************************************************)
\* lines 204-212: processed_lines_data[i], or processed_lines_data[j] of the
\* scan for the next record, raises IndexError
marker_step_raises(data, i, count) ==
    \/ i > Len(data)
    \/ /\ count > Len(data)
       /\ ~data[i].merged_into_prev
       /\ data[i].type \in mergeable_marker_types
       /\ next_unmerged(data, i) = 0

\* lines 228-257: an index beyond the list, or line 250 taking the first
\* word of a description without one, raises IndexError
heading_step_raises(data, i, count) ==
    \/ i > Len(data)
    \/ /\ ~data[i].merged_into_prev
       /\ data[i].is_heading
       /\ HeadingScanTable[data[i].text].only_keyword_and_id
       /\ LET d == next_unmerged(data, i)
          IN  \/ d = 0 /\ count > Len(data)
              \/ /\ d # 0
                 /\ HeadingScanTable[data[d].text].raises
              \/ /\ d # 0
                 /\ ~HeadingScanTable[data[d].text].refused
                 /\ next_unmerged(data, d) = 0
                 /\ count > Len(data)

(***************************************************************************)
(* process_text_alignment as a function of the list of input lines         *)
(***************************************************************************)
RECURSIVE classify_from(_, _, _)
classify_from(acc, lines, k) ==
    IF k > Len(lines) THEN acc
    ELSE classify_from(classify_line(acc, lines[k], k - 1), lines, k + 1)

RECURSIVE marker_pass_from(_, _)
marker_pass_from(data, i) ==
    IF i > Len(data) THEN data
    ELSE marker_pass_from(marker_merge_step(data, i).data, marker_merge_step(data, i).i)

RECURSIVE heading_pass_from(_, _)
heading_pass_from(data, i) ==
    IF i > Len(data) THEN data
    ELSE heading_pass_from(heading_merge_step(data, i).data, heading_merge_step(data, i).i)

RECURSIVE format_from(_, _, _)
format_from(acc, data, k) ==
    IF k > Len(data) THEN acc
    ELSE format_from(format_record(acc, data[k]), data, k + 1)

process_text_alignment(lines) ==
    LET classified == classify_from([data |-> <<>>, last |-> None], lines, 1).data
        merged == heading_pass_from(marker_pass_from(classified, 1), 1)
        out == format_from([out |-> <<>>, last |-> None], merged, 1).out
    IN  [data |-> merged, output_lines |-> out, result |-> join_lines(out)]

(***************************************************************************)
(* legal_tag_pipeline/tag_reviewer.py: the review of a document.           *)
(* Positions are 1-based; the end of a match is the position after it; 0   *)
(* stands for "no match" and for the -1 of str.find.                       *)
(***************************************************************************)
TagNameChar == Letter \cup {"_"}

\* \w over the alphabet of the model
WordChar == AlNum \cup {"_"}

\* content[a-1 : b] of Python, the bounds clipped to the string
Slice(s, a, b) == SubSeq(s, MaxOf({1, a}), MinOf({Len(s), b}))

StartsAt(s, p, sub) ==
    p + Len(sub) - 1 <= Len(s) /\ SubSeq(s, p, p + Len(sub) - 1) = sub

\* the position after the longest run of characters of C that starts at p
RECURSIVE RunEnd(_, _, _)
RunEnd(s, p, C) ==
    IF p <= Len(s) /\ Ch(s, p) \in C THEN RunEnd(s, p + 1, C) ELSE p

\* str.find
find(s, sub) ==
    LET at == {p \in Pos(s) : StartsAt(s, p, sub)}
    IN  IF at = {} THEN 0 ELSE MinOf(at)

\* the match of </?([a-zA-Z_]+)> that starts at p
TagEnd(s, p) ==
    LET n == IF StartsAt(s, p, "</") THEN p + 2 ELSE p + 1
        e == RunEnd(s, n, TagNameChar)
    IN  IF StartsAt(s, p, "<") /\ e > n /\ StartsAt(s, e, ">") THEN e + 1 ELSE 0

\* the match of Art\s+\d+ that starts at p
FormattingEnd(s, p) ==
    LET w == RunEnd(s, p + 3, Whitespace)
        d == RunEnd(s, w, Digit)
    IN  IF StartsAt(s, p, "Art") /\ w > p + 3 /\ d > w THEN d ELSE 0

\* ARTICLE_RE  \bArt\.\s*\d+[ºo]?  (IGNORECASE): the match that starts at p
ARTICLE_RE(s, p) ==
    LET w == RunEnd(s, p + 4, Whitespace)
        d == RunEnd(s, w, Digit)
    IN  IF /\ p + 3 <= Len(s)
           /\ str_lower(SubSeq(s, p, p + 3)) = "art."
           /\ (p = 1 \/ Ch(s, p - 1) \notin WordChar)
           /\ d > w
        THEN (IF d <= Len(s) /\ Ch(s, d) \in {"o", "O"} THEN d + 1 ELSE d)
        ELSE 0

\* re.finditer of the three patterns from position p on: the starts of the
\* matches, leftmost first, each search resuming where the last match ended
RECURSIVE tag_finditer(_, _)
tag_finditer(s, p) ==
    IF p > Len(s) THEN <<>>
    ELSE IF TagEnd(s, p) # 0 THEN <<p>> \o tag_finditer(s, TagEnd(s, p))
    ELSE tag_finditer(s, p + 1)

RECURSIVE formatting_finditer(_, _)
formatting_finditer(s, p) ==
    IF p > Len(s) THEN <<>>
    ELSE IF FormattingEnd(s, p) # 0 THEN <<p>> \o formatting_finditer(s, FormattingEnd(s, p))
    ELSE formatting_finditer(s, p + 1)

RECURSIVE article_finditer(_, _)
article_finditer(s, p) ==
    IF p > Len(s) THEN <<>>
    ELSE IF ARTICLE_RE(s, p) # 0 THEN <<p>> \o article_finditer(s, ARTICLE_RE(s, p))
    ELSE article_finditer(s, p + 1)

ReviewIssue(issue_type, severity, message, snippet) ==
    [issue_type |-> issue_type, severity |-> severity, message |-> message,
     snippet |-> snippet]

\* lines 23-38: the k-th tag and those after it, against the stack
RECURSIVE balance_from(_, _, _, _)
balance_from(acc, s, tags, k) ==
    IF k > Len(tags) THEN acc
    ELSE LET p == tags[k]
             closing == StartsAt(s, p, "</")
             e == TagEnd(s, p)
             tag == SubSeq(s, IF closing THEN p + 2 ELSE p + 1, e - 2)
             top == Len(acc.stack)
         IN  IF ~closing
             THEN balance_from([acc EXCEPT !.stack = Append(@, tag)], s, tags, k + 1)
             ELSE IF top = 0 \/ acc.stack[top] # tag
             THEN balance_from(
                      [acc EXCEPT !.issues = Append(@,
                          ReviewIssue("malformed", "critical",
                                      "Tag de fechamento fora de ordem: " \o tag,
                                      Slice(s, p - 30, e - 1 + 30)))],
                      s, tags, k + 1)
             ELSE balance_from([acc EXCEPT !.stack = SubSeq(@, 1, top - 1)], s, tags, k + 1)

\* TagReviewer._check_balanced_tags
check_balanced_tags(s) ==
    LET acc == balance_from([stack |-> <<>>, issues |-> <<>>], s, tag_finditer(s, 1), 1)
    IN  acc.issues \o
        [k \in 1..Len(acc.stack) |->
            ReviewIssue("malformed", "major", "Tag aberta nao fechada: " \o acc.stack[k],
                        acc.stack[k])]

\* TagReviewer._check_hierarchy
check_hierarchy(s) ==
    LET first_article == find(s, "<article>")
        first_paragraph == find(s, "<paragraph>")
    IN  IF first_paragraph # 0 /\ (first_article = 0 \/ first_paragraph < first_article)
        THEN << ReviewIssue("hierarchy", "major",
                            "Paragrafo aparece antes de qualquer artigo",
                            Slice(s, first_paragraph - 20, first_paragraph + 39)) >>
        ELSE <<>>

\* TagReviewer._check_formatting
check_formatting(s) ==
    LET ms == formatting_finditer(s, 1)
    IN  [k \in 1..Len(ms) |->
            ReviewIssue("formatting", "minor", "Artigo sem ponto ou ordinal",
                        Slice(s, ms[k], FormattingEnd(s, ms[k]) - 1 + 10))]

\* TagReviewer._check_missing
check_missing(s) ==
    LET ms == article_finditer(s, 1)
        untagged == SelectSeq(ms, LAMBDA p : find(Slice(s, p - 15, p - 1), "<article>") = 0)
    IN  [k \in 1..Len(untagged) |->
            ReviewIssue("missing", "minor", "Possivel artigo sem tag <article>",
                        Slice(s, untagged[k], ARTICLE_RE(s, untagged[k]) - 1 + 25))]

\* TagReviewer.review
review(s) ==
    [issues |-> check_balanced_tags(s) \o check_hierarchy(s) \o check_formatting(s)
                    \o check_missing(s)]

\* ReviewResult.error_count
error_count(review_result) == Len(review_result.issues)

(***************************************************************************)
(* legal_tag_pipeline/final_validator.py                                   *)
(***************************************************************************)
\* FinalValidator.assess; the scores are whole numbers
assess(review_result) ==
    LET count == error_count(review_result)
    IN  IF count = 0
        THEN [status |-> "perfect", score |-> 100, recommendations |-> <<>>]
        ELSE IF count <= 2
        THEN [status |-> "excellent", score |-> MaxOf({70, 95 - count * 5}),
              recommendations |-> <<>>]
        ELSE IF count <= 5
        THEN [status |-> "warning", score |-> MaxOf({40, 85 - count * 7}),
              recommendations |-> << "Revisar formatacao e hierarquia" >>]
        ELSE [status |-> "critical", score |-> MaxOf({10, 60 - count * 4}),
              recommendations |-> << "Reprocessar documento com OCR melhor",
                                     "Verificar fechamento de tags" >>]

(***************************************************************************)
(* legal_tag_pipeline: the clients, the corrector and the configuration    *)
(***************************************************************************)
\* the documents handed to the pipeline, and the texts a model may answer
Documents ==
    {"", "<article>Art. 1 Texto</article>", "Art 1 Texto", " Art 1 Texto ",
     "Art 1, Art 2 e Art 3", "<paragraph>Art. 1 Art 2</b>Art 3 Art 4",
     "<article>Art. 1o x</article><paragraph>Art. 2</paragraph>"}

\* the review of every document, computed once
ReviewTable == [d \in Documents |-> review(d)]

\* the largest --iterations of the model
MaxCorrectionIterations == 3

\* ProcessorConfig.max_correction_iterations when none is given
DefaultMaxCorrectionIterations == 3

ProcessorConfig(api_key, max_correction_iterations, auto_accept_minor_issues) ==
    [api_key |-> api_key, max_correction_iterations |-> max_correction_iterations,
     auto_accept_minor_issues |-> auto_accept_minor_issues]

\* the configuration of quick_process(content, api_key)
quick_process_config(api_key) ==
    ProcessorConfig(api_key, DefaultMaxCorrectionIterations, TRUE)

\* no key, an empty key, a key
ApiKeys == {None, "", "key"}

\* create_processor(api_key, **kwargs) as main.py and quick_process call it:
\* --iterations is any integer, --strict clears auto_accept_minor_issues
Configs ==
    {ProcessorConfig(k, m, a) :
        k \in ApiKeys, m \in (-1)..MaxCorrectionIterations, a \in BOOLEAN}

\* GeminiFastProcessor.__init__: the clients the constructor can end with;
\* GeminiClient(...) raises when the library is missing or refuses the key
clients_of(cfg) ==
    IF cfg.api_key \in {None, ""} THEN {"FakeLLMClient"}
    ELSE {"GeminiClient", "FakeLLMClient"}

\* FakeLLMClient.correct_tags with the text lost
correct_tags_fake_loses_text(client, text) ==
    IF client = "FakeLLMClient" THEN {[raised |-> FALSE, text |-> ""]}
    ELSE {[raised |-> FALSE, text |-> t] : t \in Documents}
             \cup {[raised |-> TRUE, text |-> ""]}

\* correct_tags of the two clients: the outcomes of one call.  The fake
\* client returns the text; the remote model answers any text, or the call
\* raises
correct_tags(client, text) ==
    IF client = "FakeLLMClient" THEN {[raised |-> FALSE, text |-> text]}
    ELSE {[raised |-> FALSE, text |-> t] : t \in Documents}
             \cup {[raised |-> TRUE, text |-> ""]}

\* LLMCorrector.correct: the outcomes of one call
correct(client, text, review_result) ==
    IF review_result.issues = <<>> THEN {[raised |-> FALSE, text |-> text]}
    ELSE correct_tags(client, text)

\* the two break tests at the head of the loop body, and the success flag
accepted(validation, cfg) ==
    \/ validation.status \in {"perfect", "excellent"}
    \/ validation.status = "warning" /\ cfg.auto_accept_minor_issues

(***************************************************************************)
(* The program as a state machine: one step per loop iteration             *)
(***************************************************************************)
VARIABLES
    raw_lines_unicode,          \* raw_text.splitlines()
    pc,                         \* "classify", "marker", "heading", "format", "done";
                                \* "error" after an uncaught exception; "idle"
                                \* while process_text_alignment is not called
    i,                          \* the index of the running loop (1-based)
    processed_lines_data,       \* the list of LineRecords
    last_line_type_identified,
    line_count,
    output_lines,
    last_output_type,
    result,                     \* the returned string, None before the return
    \* legal_tag_pipeline
    config,                     \* the ProcessorConfig
    llm_client,                 \* the class of GeminiFastProcessor.client
    content,                    \* the argument of process_document
    current,
    iterations,
    last_review,
    last_validation,
    process_result,             \* the returned ProcessResult
    pipeline_pc                 \* "create", "process", "loop", "exit", "returned";
                                \* "raised" after an uncaught exception; "idle"
                                \* while the pipeline is not called

aligner_vars == << raw_lines_unicode, pc, i, processed_lines_data,
                   last_line_type_identified, line_count, output_lines,
                   last_output_type, result >>

pipeline_vars == << config, llm_client, content, current, iterations, last_review,
                    last_validation, process_result, pipeline_pc >>

vars == << aligner_vars, pipeline_vars >>

\* the value of a local that holds an object, before its assignment
Unassigned == [assigned |-> FALSE]

\* the pipeline is not called
PipelineIdle ==
    /\ config = None
    /\ llm_client = None
    /\ content = None
    /\ current = None
    /\ iterations = 0
    /\ last_review = Unassigned
    /\ last_validation = Unassigned
    /\ process_result = Unassigned
    /\ pipeline_pc = "idle"

SeqsUpTo(S, n) == UNION {[1..k -> S] : k \in 0..n}

InitOver(V, n) ==
    /\ raw_lines_unicode \in SeqsUpTo(V, n)
    /\ pc = "classify"
    /\ i = 1
    /\ processed_lines_data = <<>>
    /\ last_line_type_identified = None
    /\ line_count = 0
    /\ output_lines = <<>>
    /\ last_output_type = None
    /\ result = None
    /\ PipelineIdle

Init == InitOver(Vocabulary, MaxLines)

InitWide == InitOver(WideVocabulary, MaxWideLines)

\* lines 177-199, one line
ClassifyLine ==
    /\ pc = "classify"
    /\ UNCHANGED pipeline_vars
    /\ i <= Len(raw_lines_unicode)
    /\ LET acc == classify_line([data |-> processed_lines_data,
                                 last |-> last_line_type_identified],
                                raw_lines_unicode[i], i - 1)
       IN  /\ processed_lines_data' = acc.data
           /\ last_line_type_identified' = acc.last
    /\ i' = i + 1
    /\ UNCHANGED << raw_lines_unicode, pc, line_count, output_lines, last_output_type,
                    result >>

\* lines 201-202 with the records counted one too many
ClassifyDone_counts_one_more ==
    /\ pc = "classify"
    /\ UNCHANGED pipeline_vars
    /\ i > Len(raw_lines_unicode)
    /\ line_count' = Len(processed_lines_data) + 1
    /\ i' = 1
    /\ pc' = "marker"
    /\ UNCHANGED << raw_lines_unicode, processed_lines_data, last_line_type_identified,
                    output_lines, last_output_type, result >>

\* lines 201-202
ClassifyDone ==
    /\ pc = "classify"
    /\ UNCHANGED pipeline_vars
    /\ i > Len(raw_lines_unicode)
    /\ line_count' = Len(processed_lines_data)
    /\ i' = 1
    /\ pc' = "marker"
    /\ UNCHANGED << raw_lines_unicode, processed_lines_data, last_line_type_identified,
                    output_lines, last_output_type, result >>

\* lines 203-224, one iteration
MarkerMergeStep ==
    /\ pc = "marker"
    /\ UNCHANGED pipeline_vars
    /\ i <= line_count
    /\ IF marker_step_raises(processed_lines_data, i, line_count)
       THEN /\ pc' = "error"
            /\ UNCHANGED << processed_lines_data, i >>
       ELSE /\ processed_lines_data' = marker_merge_step(processed_lines_data, i).data
            /\ i' = marker_merge_step(processed_lines_data, i).i
            /\ pc' = pc
    /\ UNCHANGED << raw_lines_unicode, last_line_type_identified, line_count,
                    output_lines, last_output_type, result >>

\* line 226
MarkerMergeDone ==
    /\ pc = "marker"
    /\ UNCHANGED pipeline_vars
    /\ i > line_count
    /\ i' = 1
    /\ pc' = "heading"
    /\ UNCHANGED << raw_lines_unicode, processed_lines_data, last_line_type_identified,
                    line_count, output_lines, last_output_type, result >>

\* lines 227-274, one iteration
HeadingMergeStep ==
    /\ pc = "heading"
    /\ UNCHANGED pipeline_vars
    /\ i <= line_count
    /\ IF heading_step_raises(processed_lines_data, i, line_count)
       THEN /\ pc' = "error"
            /\ UNCHANGED << processed_lines_data, i >>
       ELSE /\ processed_lines_data' = heading_merge_step(processed_lines_data, i).data
            /\ i' = heading_merge_step(processed_lines_data, i).i
            /\ pc' = pc
    /\ UNCHANGED << raw_lines_unicode, last_line_type_identified, line_count,
                    output_lines, last_output_type, result >>

\* lines 276-277
HeadingMergeDone ==
    /\ pc = "heading"
    /\ UNCHANGED pipeline_vars
    /\ i > line_count
    /\ i' = 1
    /\ pc' = "format"
    /\ output_lines' = <<>>
    /\ last_output_type' = None
    /\ UNCHANGED << raw_lines_unicode, processed_lines_data, last_line_type_identified,
                    line_count, result >>

\* lines 278-311, one record
FormatStep ==
    /\ pc = "format"
    /\ UNCHANGED pipeline_vars
    /\ i <= Len(processed_lines_data)
    /\ LET acc == format_record([out |-> output_lines, last |-> last_output_type],
                                processed_lines_data[i])
       IN  /\ output_lines' = acc.out
           /\ last_output_type' = acc.last
    /\ i' = i + 1
    /\ UNCHANGED << raw_lines_unicode, pc, processed_lines_data,
                    last_line_type_identified, line_count, result >>

\* line 313
Return ==
    /\ pc = "format"
    /\ UNCHANGED pipeline_vars
    /\ i > Len(processed_lines_data)
    /\ result' = join_lines(output_lines)
    /\ pc' = "done"
    /\ UNCHANGED << raw_lines_unicode, i, processed_lines_data,
                    last_line_type_identified, line_count, output_lines,
                    last_output_type >>

Next ==
    \/ ClassifyLine
    \/ ClassifyDone
    \/ MarkerMergeStep
    \/ MarkerMergeDone
    \/ HeadingMergeStep
    \/ HeadingMergeDone
    \/ FormatStep
    \/ Return

Spec == Init /\ [][Next]_vars

SpecWide == InitWide /\ [][Next]_vars

\* the function runs to its return: a step that can be taken is taken
SpecLive == Init /\ [][Next]_vars /\ WF_vars(Next)

(***************************************************************************)
(* legal_tag_pipeline as a state machine: create_processor(...) followed   *)
(* by process_document(content), one step per iteration of the loop        *)
(***************************************************************************)
AlignerIdle ==
    /\ raw_lines_unicode = <<>>
    /\ pc = "idle"
    /\ i = 1
    /\ processed_lines_data = <<>>
    /\ last_line_type_identified = None
    /\ line_count = 0
    /\ output_lines = <<>>
    /\ last_output_type = None
    /\ result = None

InitPipeline ==
    /\ AlignerIdle
    /\ config \in Configs
    /\ content \in Documents
    /\ llm_client = None
    /\ current = None
    /\ iterations = 0
    /\ last_review = Unassigned
    /\ last_validation = Unassigned
    /\ process_result = Unassigned
    /\ pipeline_pc = "create"

\* gemini_fast_processor.py lines 18-29
CreateProcessor ==
    /\ pipeline_pc = "create"
    /\ llm_client' \in clients_of(config)
    /\ pipeline_pc' = "process"
    /\ UNCHANGED << config, content, current, iterations, last_review, last_validation,
                    process_result >>
    /\ UNCHANGED aligner_vars

\* lines 32-35
ReviewDocument ==
    /\ pipeline_pc = "process"
    /\ current' = content
    /\ iterations' = 0
    /\ last_review' = ReviewTable[content]
    /\ last_validation' = assess(ReviewTable[content])
    /\ pipeline_pc' = "loop"
    /\ UNCHANGED << config, llm_client, content, process_result >>
    /\ UNCHANGED aligner_vars

\* lines 37-49 with the loop test off by one
CorrectionIteration_one_past_limit ==
    /\ pipeline_pc = "loop"
    /\ iterations <= config.max_correction_iterations
    /\ IF accepted(last_validation, config)
       THEN /\ pipeline_pc' = "exit"
            /\ UNCHANGED << current, iterations, last_review, last_validation >>
       ELSE \E corrected \in correct(llm_client, current, last_review) :
                IF corrected.raised
                THEN /\ pipeline_pc' = "raised"
                     /\ UNCHANGED << current, iterations, last_review, last_validation >>
                ELSE IF strip(corrected.text) = strip(current)
                THEN /\ pipeline_pc' = "exit"
                     /\ UNCHANGED << current, iterations, last_review, last_validation >>
                ELSE /\ current' = corrected.text
                     /\ iterations' = iterations + 1
                     /\ last_review' = ReviewTable[corrected.text]
                     /\ last_validation' = assess(ReviewTable[corrected.text])
                     /\ pipeline_pc' = "loop"
    /\ UNCHANGED << config, llm_client, content, process_result >>
    /\ UNCHANGED aligner_vars

\* lines 37-49: one pass through the body of the loop
CorrectionIteration ==
    /\ pipeline_pc = "loop"
    /\ iterations < config.max_correction_iterations
    /\ IF accepted(last_validation, config)
       THEN /\ pipeline_pc' = "exit"
            /\ UNCHANGED << current, iterations, last_review, last_validation >>
       ELSE \E corrected \in correct(llm_client, current, last_review) :
                IF corrected.raised
                THEN /\ pipeline_pc' = "raised"
                     /\ UNCHANGED << current, iterations, last_review, last_validation >>
                ELSE IF strip(corrected.text) = strip(current)
                THEN /\ pipeline_pc' = "exit"
                     /\ UNCHANGED << current, iterations, last_review, last_validation >>
                ELSE /\ current' = corrected.text
                     /\ iterations' = iterations + 1
                     /\ last_review' = ReviewTable[corrected.text]
                     /\ last_validation' = assess(ReviewTable[corrected.text])
                     /\ pipeline_pc' = "loop"
    /\ UNCHANGED << config, llm_client, content, process_result >>
    /\ UNCHANGED aligner_vars

\* line 37: the loop test fails
LoopExhausted ==
    /\ pipeline_pc = "loop"
    /\ ~(iterations < config.max_correction_iterations)
    /\ pipeline_pc' = "exit"
    /\ UNCHANGED << config, llm_client, content, current, iterations, last_review,
                    last_validation, process_result >>
    /\ UNCHANGED aligner_vars

\* lines 51-62 with the review of the input in the result
ReturnResult_reviews_the_input ==
    /\ pipeline_pc = "exit"
    /\ process_result' =
           [success |-> accepted(last_validation, config),
            final_content |-> current,
            review_result |-> ReviewTable[content],
            validation_result |-> last_validation,
            iterations |-> iterations,
            metadata |-> [accepted_status |-> last_validation.status]]
    /\ pipeline_pc' = "returned"
    /\ UNCHANGED << config, llm_client, content, current, iterations, last_review,
                    last_validation >>
    /\ UNCHANGED aligner_vars

\* lines 51-62
ReturnResult ==
    /\ pipeline_pc = "exit"
    /\ process_result' =
           [success |-> accepted(last_validation, config),
            final_content |-> current,
            review_result |-> last_review,
            validation_result |-> last_validation,
            iterations |-> iterations,
            metadata |-> [accepted_status |-> last_validation.status]]
    /\ pipeline_pc' = "returned"
    /\ UNCHANGED << config, llm_client, content, current, iterations, last_review,
                    last_validation >>
    /\ UNCHANGED aligner_vars

NextPipeline ==
    \/ CreateProcessor
    \/ ReviewDocument
    \/ CorrectionIteration
    \/ LoopExhausted
    \/ ReturnResult

SpecPipeline == InitPipeline /\ [][NextPipeline]_vars

\* process_document runs to its end: a step that can be taken is taken
SpecPipelineLive == InitPipeline /\ [][NextPipeline]_vars /\ WF_vars(NextPipeline)

(***************************************************************************)
(* Vocabulary of the properties                                            *)
(***************************************************************************)
\* the whitespace-separated tokens of a string
RECURSIVE Tokens(_)
Tokens(s) ==
    LET t == strip(s)
    IN  IF t = "" THEN <<>>
        ELSE <<first_word(t)>> \o Tokens(SubSeq(t, Len(first_word(t)) + 1, Len(t)))

RECURSIVE TokensOfLines(_)
TokensOfLines(lines) ==
    IF lines = <<>> THEN <<>> ELSE Tokens(lines[1]) \o TokensOfLines(Tail(lines))

\* a whitespace-only line or a digits-only line (a candidate page number)
IsBlankOrPageNumber(line) == \A k \in 1..Len(strip(line)) : Ch(strip(line), k) \in Digit

IsKeptLine(line) == ~IsBlankOrPageNumber(line)

KeptLines(lines) == SelectSeq(lines, IsKeptLine)

\* the lines of the output: the lines the return statement joins
OutLines == output_lines

Done == pc = "done"

IsEmitted(r) == ~r.merged_into_prev

\* the records the formatter emits, in order
Emitted == SelectSeq(processed_lines_data, IsEmitted)

\* the indices of the non-empty lines of the output, in order
RECURSIVE TextLineIndices(_, _)
TextLineIndices(lines, k) ==
    IF k > Len(lines) THEN <<>>
    ELSE (IF lines[k] = "" THEN <<>> ELSE <<k>>) \o TextLineIndices(lines, k + 1)

\* the output line that holds the k-th emitted record
LineOf(k) == TextLineIndices(OutLines, 1)[k]

\* every emitted record has a line of its own in the output
OneLinePerRecord == Len(TextLineIndices(OutLines, 1)) = Len(Emitted)

\* the number of empty lines right before line idx of the output
RECURSIVE BlankRunBefore(_, _)
BlankRunBefore(lines, idx) ==
    IF idx > 1 /\ lines[idx - 1] = "" THEN 1 + BlankRunBefore(lines, idx - 1) ELSE 0

UpperCasedTypes == {LT_HEADING_UPPER, LT_PREAMBLE_HEAD}

TwoBlankTypes ==
    {LT_PREAMBLE_HEAD, LT_TRANSITIONAL, LT_HEADING_UPPER, LT_HEADING_TITLE,
     LT_FOOTNOTE_BLOCK}

MarkerTypes == {LT_ENUM_MARKER, LT_NUM_MARKER, LT_NUMBERED_PARA_HEAD}

(***************************************************************************)
(* C1  Content preservation                                                *)
(***************************************************************************)
InputTokens == TokensOfLines(KeptLines(raw_lines_unicode))

OutputTokens == TokensOfLines(OutLines)

RECURSIVE EmittedTokens(_)
EmittedTokens(records) ==
    IF records = <<>> THEN <<>>
    ELSE Tokens(records[1].text) \o EmittedTokens(Tail(records))

\* the tokens of the records as the amended claim expects them in the output
RECURSIVE UpperAll(_)
UpperAll(tokens) ==
    IF tokens = <<>> THEN <<>> ELSE <<str_upper(tokens[1])>> \o UpperAll(Tail(tokens))

RECURSIVE TokensInEmittedCase(_)
TokensInEmittedCase(records) ==
    IF records = <<>> THEN <<>>
    ELSE (IF records[1].type \in UpperCasedTypes
          THEN UpperAll(Tokens(records[1].text))
          ELSE Tokens(records[1].text)) \o TokensInEmittedCase(Tail(records))

\* C1 as stated: every token of every non-blank, non-page-number input line
\* appears in the output of process_text_alignment, in the input's order:
\* the tokens of the output are the tokens of the kept input lines.
C1_TokensVerbatim == Done => OutputTokens = InputTokens

\* C1 amended: the tokens of the output are the tokens of the kept input
\* lines, in the input's order, none dropped and none added; a token reads
\* upper-cased when its record is emitted as HEADING_UPPER or PREAMBLE_HEAD
\* (a description merged into such a heading included), verbatim otherwise.
C1_TokensPreservedUpToHeadingCase ==
    Done =>
        /\ EmittedTokens(Emitted) = InputTokens
        /\ OutputTokens = TokensInEmittedCase(Emitted)

\* a run with a split line or a marker merge, a heading that absorbed its
\* description and reads upper-cased, so that the output differs in case
C1_Witness ==
    /\ Done
    /\ \E k \in 1..Len(processed_lines_data) :
           /\ processed_lines_data[k].type = LT_HEADING_UPPER
           /\ processed_lines_data[k].consumes_next
    /\ OutputTokens # InputTokens
    /\ Len(InputTokens) >= 4

(***************************************************************************)
(* C2  Marker merge eligibility                                            *)
(***************************************************************************)
\* the marker pass looks at a non-merged marker record i whose next
\* not-yet-merged record is j
MarkerScanAt(j) ==
    /\ pc = "marker"
    /\ i <= line_count
    /\ ~processed_lines_data[i].merged_into_prev
    /\ processed_lines_data[i].type \in MarkerTypes
    /\ j = next_unmerged(processed_lines_data, i)

\* in the step taken, record i absorbs record j
AbsorbsInStep(j) ==
    /\ processed_lines_data'[i].consumes_next
    /\ ~processed_lines_data[j].merged_into_prev
    /\ processed_lines_data'[j].merged_into_prev

NonMergeableAsClaimed ==
    {LT_HEADING_UPPER, LT_HEADING_TITLE, LT_PREAMBLE_HEAD, LT_PREAMBLE_INTRO,
     LT_PREAMBLE_CLAUSE, LT_TRANSITIONAL, LT_ENUM_MARKER, LT_NUM_MARKER,
     LT_NUMBERED_PARA_HEAD, LT_FOOTNOTE_BLOCK, LT_SPLIT_MARKER_PARENT}

\* C2 as stated: a non-merged ENUM_MARKER, NUM_MARKER or NUMBERED_PARA_HEAD
\* record absorbs the next not-yet-merged record if and only if that
\* record's type is outside the set of exactly the heading types, the
\* preamble types, TRANSITIONAL, the marker types, FOOTNOTE_BLOCK and
\* SPLIT_MARKER_PARENT.
C2_AbsorbsIffOutsideClaimedSet ==
    [][\A j \in 1..Len(processed_lines_data) :
           MarkerScanAt(j) =>
               (AbsorbsInStep(j) <=>
                    processed_lines_data[j].type \notin NonMergeableAsClaimed)]_vars

\* C2 amended: the non-mergeable set holds ENUM_ITEM and NUMBERED_ITEM as
\* well; a marker record absorbs the next not-yet-merged record if and only
\* if that record's type is outside the heading types, the preamble types,
\* TRANSITIONAL, the marker types, the item types ENUM_ITEM and
\* NUMBERED_ITEM, FOOTNOTE_BLOCK and SPLIT_MARKER_PARENT.
C2_AbsorbsIffOutsideCodeSet ==
    [][\A j \in 1..Len(processed_lines_data) :
           MarkerScanAt(j) =>
               (AbsorbsInStep(j) <=>
                    processed_lines_data[j].type \notin
                        (NonMergeableAsClaimed \cup {LT_ENUM_ITEM, LT_NUMBERED_ITEM}))]_vars

\* after the marker pass: a marker that met an item record and left it
\* alone, in a run of two records
C2_Witness ==
    /\ pc = "heading"
    /\ Len(processed_lines_data) = 2
    /\ processed_lines_data[1].type \in MarkerTypes
    /\ processed_lines_data[2].type \in {LT_ENUM_ITEM, LT_NUMBERED_ITEM}
    /\ ~processed_lines_data[1].consumes_next
    /\ ~processed_lines_data[2].merged_into_prev

(***************************************************************************)
(* C3  Heading/description merge with no third record                      *)
(***************************************************************************)
\* the heading pass looks at a non-merged keyword+identifier heading i whose
\* next non-merged record d is an eligible description, the last record left
HeadingScanNoThird(d) ==
    /\ pc = "heading"
    /\ i <= line_count
    /\ ~processed_lines_data[i].merged_into_prev
    /\ processed_lines_data[i].is_heading
    /\ heading_contains_only_keyword_and_id(processed_lines_data[i].text)
    /\ d = next_unmerged(processed_lines_data, i)
    /\ processed_lines_data[d].type \in {LT_REGULAR, LT_ENDS_COLON}
    /\ ~RE_ITEM_MARKER_START(processed_lines_data[d].text)
    /\ str_lower(first_word(processed_lines_data[d].text)) \notin ALL_DETECT_KEYWORDS
    /\ next_unmerged(processed_lines_data, d) = 0

C4_MarkerMergeEffect ==
    /\ [][\A j \in 1..Len(processed_lines_data) :
              (MarkerScanAt(j) /\ ~processed_lines_data[j].merged_into_prev
                  /\ processed_lines_data'[j].merged_into_prev) =>
                  /\ processed_lines_data'[i].text =
                         processed_lines_data[i].text \o " " \o processed_lines_data[j].text
                  /\ processed_lines_data'[i].type =
                         (IF processed_lines_data[i].type = LT_ENUM_MARKER
                          THEN LT_ENUM_ITEM ELSE LT_NUMBERED_ITEM)
                  /\ processed_lines_data'[i].consumes_next
                  /\ ~processed_lines_data'[i].merged_into_prev
                  /\ processed_lines_data'[j] =
                         [processed_lines_data[j] EXCEPT !.merged_into_prev = TRUE]
                  /\ \A k \in 1..Len(processed_lines_data) \ {i, j} :
                         processed_lines_data'[k] = processed_lines_data[k]
                  /\ Len(processed_lines_data') = Len(processed_lines_data)
                  /\ i' = j + 1]_vars
    /\ [](Done /\ raw_lines_unicode = <<"(a)", "First item text">> =>
              /\ processed_lines_data[1].type = LT_ENUM_ITEM
              /\ processed_lines_data[1].text = "(a) First item text"
              /\ output_lines = <<"(a) First item text">>)

\* a number marker and an enum marker that each absorbed their next record
C4_Witness ==
    /\ pc = "heading"
    /\ \E k \in 1..Len(processed_lines_data) :
           /\ processed_lines_data[k].consumes_next
           /\ processed_lines_data[k].type \in {LT_ENUM_ITEM, LT_NUMBERED_ITEM}
           /\ k < Len(processed_lines_data)
           /\ processed_lines_data[k + 1].merged_into_prev

(***************************************************************************)
(* C5  Split repair                                                        *)
(***************************************************************************)
\* <digits>.
IsNumberDot(w) == Len(w) >= 2 /\ Ch(w, Len(w)) = "." /\ AllIn(w, 1, Len(w) - 1, Digit)

\* (<1-2 letters>)
IsEnumParen(w) ==
    /\ Len(w) \in {3, 4}
    /\ Ch(w, 1) = "("
    /\ Ch(w, Len(w)) = ")"
    /\ AllIn(w, 2, Len(w) - 1, Letter)

\* the rest of a string after its first word
RestAfterFirstWord(s) ==
    strip(SubSeq(strip(s), Len(first_word(s)) + 1, Len(strip(s))))

\* a line of shape '<digits>. (<1-2 letters>) <content>'
SplitShape(line) ==
    /\ Len(Tokens(line)) >= 3
    /\ IsNumberDot(Tokens(line)[1])
    /\ IsEnumParen(Tokens(line)[2])

\* the input lines the classification loop has gone through
ClassifiedLines == IF pc = "classify" THEN 1..(i - 1) ELSE 1..Len(raw_lines_unicode)

RecordsOfLine(n) ==
    {k \in 1..Len(processed_lines_data) : processed_lines_data[k].original_index = n - 1}

\* the lines of the model that have the shape, and for each the texts the
\* claim gives its two records
SplitShapedLines == {line \in Vocabulary \cup WideVocabulary : SplitShape(line)}

SplitTextsClaimed ==
    [line \in SplitShapedLines |->
        [parent |-> Tokens(line)[1],
         item |-> Tokens(line)[2] \o " " \o RestAfterFirstWord(RestAfterFirstWord(line))]]

\* C5: a line of shape '<digits>. (<1-2 letters>) <content>' gives exactly
\* two records with its original_index and was_split: a SPLIT_MARKER_PARENT
\* holding the number marker alone, then an ENUM_ITEM holding the enum
\* marker, one space and the content.  In no state does either of them
\* absorb a record or get absorbed, and they are emitted as two lines of
\* their own, one after the other.
C5_SplitRepair ==
    \A n \in ClassifiedLines :
        raw_lines_unicode[n] \in SplitShapedLines =>
            \E p \in 1..(Len(processed_lines_data) - 1) :
                LET parent == processed_lines_data[p]
                    item == processed_lines_data[p + 1]
                    texts == SplitTextsClaimed[raw_lines_unicode[n]]
                IN  /\ RecordsOfLine(n) = {p, p + 1}
                    /\ parent.type = LT_SPLIT_MARKER_PARENT
                    /\ parent.text = texts.parent
                    /\ item.type = LT_ENUM_ITEM
                    /\ item.text = texts.item
                    /\ parent.was_split /\ item.was_split
                    /\ ~parent.merged_into_prev /\ ~parent.consumes_next
                    /\ ~item.merged_into_prev /\ ~item.consumes_next
                    /\ Done =>
                           \E m \in 1..(Len(output_lines) - 1) :
                               /\ output_lines[m] = parent.text
                               /\ output_lines[m + 1] = item.text

\* a split line between a marker and a text line, formatted
C5_Witness ==
    /\ Done
    /\ Len(raw_lines_unicode) = 3
    /\ raw_lines_unicode[2] \in SplitShapedLines
    /\ Len(processed_lines_data) = 4
    /\ processed_lines_data[1].type \in MarkerTypes
    /\ processed_lines_data[4].type = LT_REGULAR

(***************************************************************************)
(* C6  Page-number and blank-line invariance                               *)
(***************************************************************************)
\* a record without its original_index, the one field that counts input lines
WithoutIndex(r) ==
    [text |-> r.text, type |-> r.type, merged_into_prev |-> r.merged_into_prev,
     consumes_next |-> r.consumes_next, is_heading |-> r.is_heading,
     was_split |-> r.was_split]

SameRecords(a, b) ==
    /\ Len(a) = Len(b)
    /\ \A k \in 1..Len(a) : WithoutIndex(a[k]) = WithoutIndex(b[k])

\* C6: whitespace-only and digits-only lines change nothing: the run on the
\* input gives the output, and up to original_index the records (texts,
\* types, flags), of the run on the input with all such lines removed.  Two
\* inputs that differ by such lines only therefore give the same output.
C6_BlankAndPageNumberInvariance ==
    Done =>
        LET reference == process_text_alignment(KeptLines(raw_lines_unicode))
        IN  /\ result = reference.result
            /\ output_lines = reference.output_lines
            /\ SameRecords(processed_lines_data, reference.data)

\* a page number between a preamble head and its clause, and a blank line
\* or page number first, between or last in a run with a merge
C6_Witness ==
    /\ Done
    /\ Len(raw_lines_unicode) = 3
    /\ strip(raw_lines_unicode[2]) # ""
    /\ IsBlankOrPageNumber(raw_lines_unicode[2])
    /\ Len(processed_lines_data) = 2
    /\ processed_lines_data[1].type = LT_PREAMBLE_HEAD
    /\ processed_lines_data[2].type = LT_PREAMBLE_CLAUSE

(***************************************************************************)
(* C7  Two-blank-line rule                                                 *)
(***************************************************************************)
\* C7 as stated: every emitted PREAMBLE_HEAD, TRANSITIONAL, HEADING_UPPER,
\* HEADING_TITLE or FOOTNOTE_BLOCK record has exactly two empty lines right
\* before it, except the very first emitted record, which has none: the
\* output then starts with the record's text.
C7_TwoBlankLinesSuppressedAtStart ==
    Done =>
        LET lineOf == TextLineIndices(output_lines, 1)
        IN  /\ Len(lineOf) = Len(Emitted)
            /\ \A k \in 1..Len(Emitted) :
                   Emitted[k].type \in TwoBlankTypes =>
                       IF k = 1 THEN lineOf[k] = 1
                       ELSE BlankRunBefore(output_lines, lineOf[k]) = 2

\* C7 amended: every emitted PREAMBLE_HEAD, TRANSITIONAL, HEADING_UPPER,
\* HEADING_TITLE or FOOTNOTE_BLOCK record has exactly two empty lines right
\* before it, the very first emitted record included: the output then
\* starts with two empty lines.
C7_TwoBlankLinesAlways ==
    Done =>
        LET lineOf == TextLineIndices(output_lines, 1)
        IN  /\ Len(lineOf) = Len(Emitted)
            /\ \A k \in 1..Len(Emitted) :
                   Emitted[k].type \in TwoBlankTypes =>
                       BlankRunBefore(output_lines, lineOf[k]) = 2

\* two records of these types emitted, the first of them first in the output
C7_Witness ==
    /\ Done
    /\ Len(Emitted) = 2
    /\ Emitted[1].type \in TwoBlankTypes
    /\ Emitted[2].type \in TwoBlankTypes
    /\ Len(output_lines) = 6

(***************************************************************************)
(* C8  Heading tie-break                                                   *)
(***************************************************************************)
\* the lines whose first word is a registered keyword and whose longest
\* matched keyword is in the upper-case-style and the title-case-style set
TieLines ==
    {line \in Vocabulary \cup WideVocabulary :
        /\ strip(line) # ""
        /\ best_kw_lower(strip(line)) \in DETECT_KEYWORDS_UPPER \cap DETECT_KEYWORDS_TITLE}

\* C8 as stated: such a line is classified HEADING_TITLE and its text is
\* emitted as stored, without upper-casing.
C8_TieIsTitle ==
    \A n \in ClassifiedLines :
        raw_lines_unicode[n] \in TieLines =>
            \E p \in RecordsOfLine(n) :
                /\ processed_lines_data[p].type = LT_HEADING_TITLE
                /\ Done => \E m \in 1..Len(output_lines) :
                               output_lines[m] = processed_lines_data[p].text

\* C8 amended: such a line is classified HEADING_UPPER (the upper-case-style
\* set is consulted first, so a tie goes to upper case) and its text is
\* emitted upper-cased.
C8_TieIsUpper ==
    \A n \in ClassifiedLines :
        raw_lines_unicode[n] \in TieLines =>
            /\ Cardinality(RecordsOfLine(n)) = 1
            /\ \A p \in RecordsOfLine(n) :
                   /\ processed_lines_data[p].type = LT_HEADING_UPPER
                   /\ processed_lines_data[p].is_heading
                   /\ Done => \E m \in 1..Len(output_lines) :
                                  output_lines[m] = str_upper(processed_lines_data[p].text)

\* 'Article 1' formatted: a tie keyword in mixed case
C8_Witness ==
    /\ Done
    /\ \E n \in 1..Len(raw_lines_unicode) :
           /\ raw_lines_unicode[n] \in TieLines
           /\ str_lower(first_word(raw_lines_unicode[n])) = "article"
           /\ str_upper(raw_lines_unicode[n]) # raw_lines_unicode[n]

(***************************************************************************)
(* C9  Case transform                                                      *)
(***************************************************************************)
\* C9: the line emitted for a HEADING_UPPER or PREAMBLE_HEAD record is the
\* record's whole stored text upper-cased, a merged description included;
\* the line emitted for a record of any other type is its stored text.
C9_CaseTransform ==
    Done =>
        LET lineOf == TextLineIndices(output_lines, 1)
        IN  /\ Len(lineOf) = Len(Emitted)
            /\ \A k \in 1..Len(Emitted) :
                   output_lines[lineOf[k]] =
                       IF Emitted[k].type \in UpperCasedTypes
                       THEN str_upper(Emitted[k].text)
                       ELSE Emitted[k].text

\* an upper-case heading that absorbed a description in mixed case
C9_Witness ==
    /\ Done
    /\ \E k \in 1..Len(Emitted) :
           /\ Emitted[k].type = LT_HEADING_UPPER
           /\ Emitted[k].consumes_next
           /\ str_upper(Emitted[k].text) # Emitted[k].text

(***************************************************************************)
(* C10  One-blank-line rule                                                *)
(***************************************************************************)
\* C10: every emitted record whose final type is NUMBERED_PARA_HEAD has
\* exactly one empty line right before it; every emitted record of a type
\* other than NUMBERED_PARA_HEAD, PREAMBLE_HEAD, TRANSITIONAL, HEADING_UPPER,
\* HEADING_TITLE and FOOTNOTE_BLOCK has no empty line right before it.
C10_OneBlankLine ==
    Done =>
        LET lineOf == TextLineIndices(output_lines, 1)
        IN  /\ Len(lineOf) = Len(Emitted)
            /\ \A k \in 1..Len(Emitted) :
                   /\ Emitted[k].type = LT_NUMBERED_PARA_HEAD =>
                          BlankRunBefore(output_lines, lineOf[k]) = 1
                   /\ Emitted[k].type \notin TwoBlankTypes \cup {LT_NUMBERED_PARA_HEAD} =>
                          BlankRunBefore(output_lines, lineOf[k]) = 0

\* a number marker that absorbed nothing, emitted after a text line
C10_Witness ==
    /\ Done
    /\ Len(Emitted) = 2
    /\ Emitted[1].type = LT_REGULAR
    /\ Emitted[2].type = LT_NUMBERED_PARA_HEAD
    /\ output_lines = <<Emitted[1].text, "", Emitted[2].text>>

(***************************************************************************)
(* C11  Marker escalation law / type monotonicity                          *)
(***************************************************************************)
\* the records as the classification loop (split repair included) made them
ClassifiedRecords ==
    classify_from([data |-> <<>>, last |-> None], raw_lines_unicode, 1).data

\* the type of record k changes in this step, by escalation of a marker
EscalatesInStep(k) ==
    /\ pc = "marker"
    /\ \/ /\ processed_lines_data[k].type = LT_ENUM_MARKER
          /\ processed_lines_data'[k].type = LT_ENUM_ITEM
       \/ /\ processed_lines_data[k].type \in {LT_NUM_MARKER, LT_NUMBERED_PARA_HEAD}
          /\ processed_lines_data'[k].type = LT_NUMBERED_ITEM
    /\ processed_lines_data'[k].consumes_next

\* C11: a record's type is assigned when the classification loop appends the
\* record; afterwards no step changes a type except a marker merge step, which
\* escalates ENUM_MARKER to ENUM_ITEM or NUM_MARKER/NUMBERED_PARA_HEAD to
\* NUMBERED_ITEM and sets consumes_next; the heading/description pass and the
\* formatter change no type.  So after classification every record whose type
\* differs from its initial type was such a marker, ends as the item type and
\* has consumes_next.
C11_TypeMonotonicity ==
    /\ [][/\ Len(processed_lines_data') >= Len(processed_lines_data)
          /\ pc # "classify" => Len(processed_lines_data') = Len(processed_lines_data)
          /\ \A k \in 1..Len(processed_lines_data) :
                 \/ processed_lines_data'[k].type = processed_lines_data[k].type
                 \/ EscalatesInStep(k)]_vars
    /\ [](pc # "classify" =>
            /\ Len(processed_lines_data) = Len(ClassifiedRecords)
            /\ \A k \in 1..Len(processed_lines_data) :
                   processed_lines_data[k].type # ClassifiedRecords[k].type =>
                       /\ processed_lines_data[k].consumes_next
                       /\ \/ /\ ClassifiedRecords[k].type = LT_ENUM_MARKER
                             /\ processed_lines_data[k].type = LT_ENUM_ITEM
                          \/ /\ ClassifiedRecords[k].type \in {LT_NUM_MARKER, LT_NUMBERED_PARA_HEAD}
                             /\ processed_lines_data[k].type = LT_NUMBERED_ITEM)

\* a finished run with a record that was classified NUMBERED_PARA_HEAD and
\* ends NUMBERED_ITEM, next to a record whose type never changed
C11_Witness ==
    /\ Done
    /\ \E k \in 1..Len(processed_lines_data) :
           /\ processed_lines_data[k].type = LT_NUMBERED_ITEM
           /\ ClassifiedRecords[k].type = LT_NUMBERED_PARA_HEAD
           /\ processed_lines_data[k].consumes_next
    /\ \E k \in 1..Len(processed_lines_data) :
           /\ processed_lines_data[k].is_heading
           /\ processed_lines_data[k].type = ClassifiedRecords[k].type

(***************************************************************************)
(* C12  Merge-flag pairing                                                 *)
(***************************************************************************)
\* C12: between any two steps of the merge passes and after both of them, no
\* record has both merged_into_prev and consumes_next, and record k has
\* consumes_next exactly when record k+1 exists and has merged_into_prev.
C12_MergeFlagPairing ==
    \A k \in 1..Len(processed_lines_data) :
        /\ ~(processed_lines_data[k].merged_into_prev /\ processed_lines_data[k].consumes_next)
        /\ processed_lines_data[k].consumes_next <=>
               /\ k + 1 <= Len(processed_lines_data)
               /\ processed_lines_data[k + 1].merged_into_prev

\* both passes are over; a marker absorbed the record right after it and a
\* further record follows the pair
C12_Witness ==
    /\ pc \in {"format", "done"}
    /\ Len(processed_lines_data) = 3
    /\ \E k \in 1..2 :
           /\ processed_lines_data[k].consumes_next
           /\ processed_lines_data[k].type \in {LT_ENUM_ITEM, LT_NUMBERED_ITEM}
           /\ processed_lines_data[k + 1].merged_into_prev

(***************************************************************************)
(* C13  Totality                                                           *)
(***************************************************************************)
\* C13: no run of process_text_alignment raises an exception, whatever the
\* input lines, and a run on no lines, or on whitespace-only and digits-only
\* lines only, returns the empty string.
C13_Totality ==
    /\ pc # "error"
    /\ Done /\ KeptLines(raw_lines_unicode) = <<>> => result = ""

\* a finished run on several lines, all blank or page numbers, one of each
C13_Witness ==
    /\ Done
    /\ Len(raw_lines_unicode) >= 2
    /\ KeptLines(raw_lines_unicode) = <<>>
    /\ \E n \in 1..Len(raw_lines_unicode) : strip(raw_lines_unicode[n]) = ""
    /\ \E n \in 1..Len(raw_lines_unicode) : strip(raw_lines_unicode[n]) # ""
    /\ result = ""

(***************************************************************************)
(* C14  Termination of the scans                                           *)
(***************************************************************************)
\* some record gets merged_into_prev in this step
MergesInStep ==
    \E k \in 1..Len(processed_lines_data) :
        /\ ~processed_lines_data[k].merged_into_prev
        /\ processed_lines_data'[k].merged_into_prev

\* C14: every iteration of either merge pass moves the scan index forward, by
\* 2 when it merged and by 1 otherwise, and leaves the number of records and
\* line_count as they are; the index never passes line_count + 1, so a pass
\* makes at most line_count iterations; and every run returns, which it does
\* from the formatter once that has gone through every record.
C14_ScansTerminate ==
    /\ [][(pc \in {"marker", "heading"} /\ pc' = pc) =>
            (/\ i' = (IF MergesInStep THEN i + 2 ELSE i + 1)
             /\ Len(processed_lines_data') = Len(processed_lines_data)
             /\ line_count' = line_count)]_vars
    /\ [](pc \in {"marker", "heading"} =>
            /\ line_count = Len(processed_lines_data)
            /\ 1 <= i
            /\ i <= line_count + 1)
    /\ <>(Done /\ i > Len(processed_lines_data))

\* the heading scan has just merged at the first record and jumped to the third
C14_Witness ==
    /\ pc = "heading"
    /\ i = 3
    /\ processed_lines_data[1].is_heading
    /\ processed_lines_data[1].consumes_next
    /\ processed_lines_data[2].merged_into_prev

(***************************************************************************)
(* C15  Idempotence of blank normalization                                 *)
(***************************************************************************)
\* the lines as the formatter would read them back: an empty line as a BLANK
\* record, any other line as a record with no rule about blank lines
LinesAsRecords(lines) ==
    [k \in 1..Len(lines) |->
        LineRecord(lines[k], IF strip(lines[k]) = "" THEN LT_BLANK ELSE LT_REGULAR,
                   k - 1, FALSE, FALSE)]

\* the formatter's rule for BLANK records (lines 284-286) applied to the lines
blank_collapse(lines) ==
    format_from([out |-> <<>>, last |-> None], LinesAsRecords(lines), 1).out

HasBlankRun(lines) ==
    \E k \in 1..(Len(lines) - 1) : lines[k] = "" /\ lines[k + 1] = ""

\* C15 as stated: the blank-collapsing rule applied to the formatter's output
\* gives that output again, with no two empty lines in a row.
C15_CollapseKeepsOutput ==
    Done =>
        /\ blank_collapse(output_lines) = output_lines
        /\ ~HasBlankRun(blank_collapse(output_lines))

\* C15 amended: the blank-collapsing rule applied to the formatter's output
\* gives lines with no two empty lines in a row, and applied to those again
\* gives them again; it gives the formatter's output itself exactly when that
\* has no two empty lines in a row, which is when no PREAMBLE_HEAD,
\* TRANSITIONAL, HEADING_UPPER, HEADING_TITLE or FOOTNOTE_BLOCK record was
\* emitted.
C15_CollapseIdempotent ==
    Done =>
        LET once == blank_collapse(output_lines)
        IN  /\ ~HasBlankRun(once)
            /\ blank_collapse(once) = once
            /\ once = output_lines <=> ~HasBlankRun(output_lines)
            /\ HasBlankRun(output_lines) <=>
                   \E k \in 1..Len(Emitted) : Emitted[k].type \in TwoBlankTypes

\* an output with the two empty lines of a heading and the one of a
\* NUMBERED_PARA_HEAD
C15_Witness ==
    /\ Done
    /\ HasBlankRun(output_lines)
    /\ \E k \in 1..Len(Emitted) : Emitted[k].type = LT_NUMBERED_PARA_HEAD
    /\ blank_collapse(output_lines) # output_lines

(***************************************************************************)
(* C16  Preamble clause rule                                               *)
(***************************************************************************)
PreambleTypes == {LT_PREAMBLE_HEAD, LT_PREAMBLE_INTRO, LT_PREAMBLE_CLAUSE}

\* the lines of the rule: not 'preamble', an intro phrase or a transitional
\* phrase; a clause starter and a space first; no enumerated or numbered item
ClauseShapedLines ==
    {line \in Vocabulary \cup WideVocabulary :
        /\ str_lower(strip(line)) # "preamble"
        /\ strip(line) \notin PREAMBLE_INTRO_PHRASES
        /\ str_lower(strip(line)) \notin DETECT_TRANSITIONAL_PHRASES_LOWER
        /\ \E word \in PREAMBLE_CLAUSE_STARTERS : startswith(strip(line), word \o " ")
        /\ ~RE_ENUM_ITEM(strip(line))
        /\ ~RE_NUMBERED_ITEM(strip(line))}

\* C16: a line of that shape read while the previous type is PREAMBLE_HEAD,
\* PREAMBLE_INTRO or PREAMBLE_CLAUSE gives one record, of type PREAMBLE_CLAUSE
\* with the stripped line as text, whatever a later rule (ENDS_COLON for a
\* final colon, REGULAR) would have said, and PREAMBLE_CLAUSE becomes the
\* previous type.
C16_PreambleClauseRule ==
    [][(/\ pc = "classify"
        /\ i <= Len(raw_lines_unicode)
        /\ last_line_type_identified \in PreambleTypes
        /\ raw_lines_unicode[i] \in ClauseShapedLines) =>
       (/\ Len(processed_lines_data') = Len(processed_lines_data) + 1
        /\ processed_lines_data'[Len(processed_lines_data')].type = LT_PREAMBLE_CLAUSE
        /\ processed_lines_data'[Len(processed_lines_data')].text = strip(raw_lines_unicode[i])
        /\ ~processed_lines_data'[Len(processed_lines_data')].is_heading
        /\ last_line_type_identified' = LT_PREAMBLE_CLAUSE)]_vars

\* a clause that ends in a colon has been read after an intro phrase
C16_Witness ==
    /\ pc = "marker"
    /\ Len(processed_lines_data) = 2
    /\ Len(raw_lines_unicode) = 2
    /\ raw_lines_unicode[2] \in ClauseShapedLines
    /\ processed_lines_data[1].type = LT_PREAMBLE_INTRO
    /\ endswith(processed_lines_data[2].text, ":")
    /\ processed_lines_data[2].type = LT_PREAMBLE_CLAUSE

(***************************************************************************)
(* C17  Determinism                                                        *)
(***************************************************************************)
\* the lines for which the keyword the loop over the set ALL_DETECT_KEYWORDS
\* ends with depends on the order the set is read in
OrderDependentLines ==
    {line \in Vocabulary \cup WideVocabulary :
        Cardinality(best_kw_candidates(strip(line))) > 1}

\* C17: the one choice the code leaves open, the order in which the keyword
\* set is read, never changes the keyword found for a line of the input, and
\* the records (text, type, flags) and the returned string of a finished run
\* are those the input lines alone determine: two runs on the same lines give
\* the same records and the same string.
C17_Determinism ==
    /\ \A n \in 1..Len(raw_lines_unicode) : raw_lines_unicode[n] \notin OrderDependentLines
    /\ Done =>
           /\ processed_lines_data = process_text_alignment(raw_lines_unicode).data
           /\ result = process_text_alignment(raw_lines_unicode).result

\* a finished run on a line that holds two keywords of the same length, the
\* first of them at its start
C17_Witness ==
    /\ Done
    /\ \E n \in 1..Len(raw_lines_unicode) :
           /\ raw_lines_unicode[n] = "Part I of Rule 5"
           /\ best_kw_candidates(raw_lines_unicode[n]) = {"part"}
    /\ \E k \in 1..Len(processed_lines_data) :
           /\ processed_lines_data[k].text = "Part I of Rule 5"
           /\ processed_lines_data[k].type = LT_HEADING_UPPER


(***************************************************************************)
(* C18                                                                     *)
(***************************************************************************)
\* quick_process(content) with no API key has returned
QuickProcessNoKeyReturned ==
    /\ pipeline_pc = "returned"
    /\ config = quick_process_config(None)

\* C18: quick_process without an API key runs on the fake client, and for
\* every input it returns the input as final_content (so a non-empty input
\* gives a non-empty final_content), iterations = 0, and an error_count
\* that is the number of issues detected in the input, zero or more, be the
\* status PERFECT, EXCELLENT, WARNING or CRITICAL.
C18_QuickProcessNoKey ==
    /\ (config = quick_process_config(None) /\ pipeline_pc \notin {"create", "idle"})
           => llm_client = "FakeLLMClient"
    /\ (config = quick_process_config(None)) => pipeline_pc # "raised"
    /\ QuickProcessNoKeyReturned =>
           /\ process_result.final_content = content
           /\ (content # "" => process_result.final_content # "")
           /\ process_result.iterations = 0
           /\ error_count(process_result.review_result) = Len(review(content).issues)
           /\ error_count(process_result.review_result) >= 0
           /\ process_result.validation_result.status
                  \in {"perfect", "excellent", "warning", "critical"}

\* a document reviewed CRITICAL has gone through quick_process without a key
C18_Witness ==
    /\ QuickProcessNoKeyReturned
    /\ content # ""
    /\ process_result.validation_result.status = "critical"
    /\ error_count(process_result.review_result) > 5

(***************************************************************************)
(* C19                                                                     *)
(***************************************************************************)
\* process_document ends, by its return or by the exception of a remote call
C19_Terminates == <>(pipeline_pc \in {"returned", "raised"})

\* one step taken at the head of the loop: an accepted status or a spent
\* limit leaves the loop with nothing changed; otherwise the step either
\* leaves the loop with nothing changed (the correction is the current text
\* up to strip(), which is what the fake client always answers), or raises,
\* or is one correction that differs from the current text, counted once,
\* reviewed once and assessed once
C19_LoopStep ==
    [][pipeline_pc = "loop" =>
          /\ pipeline_pc' \in {"loop", "exit", "raised"}
          /\ (accepted(last_validation, config)
                  \/ ~(iterations < config.max_correction_iterations))
                 => (/\ pipeline_pc' = "exit"
                     /\ UNCHANGED << current, iterations, last_review, last_validation >>)
          /\ pipeline_pc' # "loop"
                 => UNCHANGED << current, iterations, last_review, last_validation >>
          /\ llm_client = "FakeLLMClient" => pipeline_pc' = "exit"
          /\ pipeline_pc' = "raised" => llm_client = "GeminiClient"
          /\ pipeline_pc' = "loop"
                 => (/\ strip(current') # strip(current)
                     /\ iterations' = iterations + 1
                     /\ last_review' = review(current')
                     /\ last_validation' = assess(last_review'))]_vars

\* C19 as stated: process_document always terminates, the returned
\* iterations satisfies 0 <= iterations <= max_correction_iterations, and
\* the loop stops as soon as the status is accepted or the correction
\* equals the current text after stripping, performing otherwise exactly
\* one correction, one re-review and one re-validation per iteration.
C19_BoundedLoop ==
    /\ C19_Terminates
    /\ [](pipeline_pc = "returned" =>
              /\ 0 <= process_result.iterations
              /\ process_result.iterations <= config.max_correction_iterations)
    /\ C19_LoopStep

\* C19 amended: process_document always terminates (by its return, or by
\* the exception of a remote correction), and the returned iterations
\* satisfies 0 <= iterations <= max(0, max_correction_iterations): with a
\* negative limit the loop body never runs and iterations is 0.  The loop
\* stops as soon as the status is accepted or the correction equals the
\* current text after stripping, and otherwise performs exactly one
\* correction, one re-review and one re-validation per iteration.
C19_BoundedLoopAmended ==
    /\ C19_Terminates
    /\ [](/\ iterations >= 0
          /\ iterations <= MaxOf({0, config.max_correction_iterations})
          /\ pipeline_pc = "returned" => process_result.iterations = iterations)
    /\ C19_LoopStep

\* a document was corrected until the limit was spent, and returned
\* unaccepted
C19_Witness ==
    /\ pipeline_pc = "returned"
    /\ process_result.iterations = config.max_correction_iterations
    /\ process_result.iterations >= 2
    /\ ~process_result.success

\* a negative limit: the returned iterations is 0, above the limit
C19_NegativeLimitWitness ==
    /\ pipeline_pc = "returned"
    /\ config.max_correction_iterations < 0
    /\ process_result.iterations = 0

(***************************************************************************)
(* C20                                                                     *)
(***************************************************************************)
\* the types the claim calls major structural
C20_MajorTypes ==
    {LT_HEADING_UPPER, LT_HEADING_TITLE, LT_PREAMBLE_HEAD, LT_TRANSITIONAL,
     LT_SPLIT_MARKER_PARENT}

\* a step of the heading pass touches the records
HeadingPassChanges ==
    /\ pc = "heading"
    /\ pc' = "heading"
    /\ processed_lines_data' # processed_lines_data

\* the conditions of the claim on heading h and description d, in the state
\* before the step
C20_Conditions(h, d) ==
    LET data == processed_lines_data
        unmerged_after_h == {j \in (h + 1)..Len(data) : ~data[j].merged_into_prev}
        unmerged_after_d == {j \in (d + 1)..Len(data) : ~data[j].merged_into_prev}
    IN  /\ ~data[h].merged_into_prev
        /\ data[h].is_heading
        /\ heading_contains_only_keyword_and_id(data[h].text)
        /\ d \in unmerged_after_h
        /\ \A j \in unmerged_after_h : d <= j
        /\ data[d].type \in {LT_REGULAR, LT_ENDS_COLON}
        /\ data[d].text # ""
        /\ ~RE_ITEM_MARKER_START(data[d].text)
        /\ str_lower(first_word(data[d].text)) \notin ALL_DETECT_KEYWORDS
        /\ unmerged_after_d # {}
        /\ data[MinOf(unmerged_after_d)].type \notin C20_MajorTypes

\* the effect of the claim: h takes d's text after one space and keeps its
\* type, h gets consumes_next, d gets merged_into_prev, nothing else moves
C20_Effect(h, d) ==
    LET data == processed_lines_data
    IN  /\ Len(processed_lines_data') = Len(data)
        /\ processed_lines_data'[h] =
               [data[h] EXCEPT !.text = data[h].text \o " " \o data[d].text,
                               !.consumes_next = TRUE]
        /\ processed_lines_data'[h].type = data[h].type
        /\ processed_lines_data'[d] = [data[d] EXCEPT !.merged_into_prev = TRUE]
        /\ \A j \in 1..Len(data) : j \notin {h, d} => processed_lines_data'[j] = data[j]

\* C20: whenever the heading/description pass changes the records, it has
\* merged one record d into the heading h under the index of the pass, and
\* all conditions held before the step: h non-merged, is_heading, of
\* keyword+identifier-only shape; d the next non-merged record after h, of
\* type REGULAR or ENDS_COLON, its text not starting with an item marker and
\* its first word no registered keyword; the next non-merged record after d
\* not of a major structural type.  The merge sets h.text to h.text, one
\* space, d.text, leaves h.type, sets d.merged_into_prev and h.consumes_next.
C20_HeadingMergeConditions ==
    [][HeadingPassChanges =>
          \E d \in 1..Len(processed_lines_data) :
              /\ ~processed_lines_data[d].merged_into_prev
              /\ processed_lines_data'[d].merged_into_prev
              /\ C20_Conditions(i, d)
              /\ C20_Effect(i, d)]_vars

\* a heading has absorbed a REGULAR or ENDS_COLON description that is
\* followed by a record of a non-major type
C20_Witness ==
    /\ pc = "heading"
    /\ \E h \in 1..Len(processed_lines_data) :
           /\ h + 2 <= Len(processed_lines_data)
           /\ h < i
           /\ processed_lines_data[h].is_heading
           /\ processed_lines_data[h].consumes_next
           /\ processed_lines_data[h + 1].merged_into_prev
           /\ processed_lines_data[h + 1].type \in {LT_REGULAR, LT_ENDS_COLON}
           /\ processed_lines_data[h + 2].type \notin C20_MajorTypes
           /\ endswith(processed_lines_data[h].text,
                       " " \o processed_lines_data[h + 1].text)

(***************************************************************************)
(* C21  Unmerged markers                                                   *)
(***************************************************************************)
\* the marker pass is over
MarkerPassOver == pc \in {"heading", "format", "done"}

\* record k, classified as a marker, found no eligible next record: it is
\* the last record, or the record right after it has a non-mergeable type
FoundNoEligibleNext(k) ==
    \/ k = Len(ClassifiedRecords)
    \/ ClassifiedRecords[k + 1].type \in non_merge_types

\* the place of the non-merged record k among the emitted records
EmittedRank(k) ==
    Cardinality({j \in 1..k : ~processed_lines_data[j].merged_into_prev})

\* record k is a marker left alone: marker type, not merged away
IsUnmergedMarker(k) ==
    /\ processed_lines_data[k].type \in MarkerTypes
    /\ ~processed_lines_data[k].merged_into_prev

\* C21: after the marker merge pass a record classified ENUM_MARKER,
\* NUM_MARKER or NUMBERED_PARA_HEAD still has one of these types exactly
\* when it found no eligible next record (it is the last record, or the
\* record right after it has a non-mergeable type); no non-merged marker
\* record is directly followed by a non-merged REGULAR or ENDS_COLON record;
\* and in the finished output such a marker is a line of its own, holding
\* the marker text alone.
C21_UnmergedMarkers ==
    MarkerPassOver =>
        /\ Len(processed_lines_data) = Len(ClassifiedRecords)
        /\ \A k \in 1..Len(processed_lines_data) :
               /\ ClassifiedRecords[k].type \in MarkerTypes =>
                      (processed_lines_data[k].type \in MarkerTypes
                           <=> FoundNoEligibleNext(k))
               /\ processed_lines_data[k].type \in MarkerTypes =>
                      ClassifiedRecords[k].type \in MarkerTypes
               /\ IsUnmergedMarker(k) =>
                      /\ processed_lines_data[k].text = ClassifiedRecords[k].text
                      /\ ~processed_lines_data[k].consumes_next
                      /\ k < Len(processed_lines_data) =>
                             ~ /\ ~processed_lines_data[k + 1].merged_into_prev
                               /\ processed_lines_data[k + 1].type \in
                                      {LT_REGULAR, LT_ENDS_COLON}
                      /\ Done => OutLines[LineOf(EmittedRank(k))] =
                                     ClassifiedRecords[k].text

\* the output is finished; a marker followed by a non-mergeable record was
\* left alone and emitted, while another marker absorbed its text
C21_Witness ==
    /\ Done
    /\ \E k \in 1..Len(processed_lines_data) :
           /\ IsUnmergedMarker(k)
           /\ k < Len(processed_lines_data)
           /\ processed_lines_data[k + 1].type \in non_merge_types
    /\ \E k \in 1..Len(processed_lines_data) :
           /\ ClassifiedRecords[k].type \in MarkerTypes
           /\ processed_lines_data[k].type \notin MarkerTypes

(***************************************************************************)
(* C22  Previous-type threading                                            *)
(***************************************************************************)
\* the most recent record before record k that is not merged away, 0 if none
RetainedBefore(k) ==
    LET S == {j \in 1..(k - 1) : ~processed_lines_data[j].merged_into_prev}
    IN  IF S = {} THEN 0 ELSE MaxOf(S)

\* the previous types the specification's rule can mean for record k: the
\* type of that record as classified, and its type after the merge passes
RetainedPreviousTypes(k) ==
    IF RetainedBefore(k) = 0 THEN {None}
    ELSE {ClassifiedRecords[RetainedBefore(k)].type,
          processed_lines_data[RetainedBefore(k)].type}

\* C22: when the output is finished, the type every line that gave one record
\* was classified with equals the type identify_line_type returns for the
\* line when its previous type is the type of the most recent preceding
\* record that is not merged away (None when there is none), although the
\* code threads the type of the last record created, absorbed or not.
C22_PreviousTypeThreading ==
    Done =>
        \A k \in 1..Len(processed_lines_data) :
            ~processed_lines_data[k].was_split =>
                \A previous_type \in RetainedPreviousTypes(k) :
                    ClassifiedRecords[k].type =
                        LineTypeTable[raw_lines_unicode[
                            processed_lines_data[k].original_index + 1]][previous_type]

\* the output is finished and the two notions of previous type differ for a
\* record of clause shape: the record created just before it was absorbed
C22_Witness ==
    /\ Done
    /\ \E k \in 3..Len(processed_lines_data) :
           /\ ~processed_lines_data[k].was_split
           /\ processed_lines_data[k - 1].merged_into_prev
           /\ RetainedBefore(k) = k - 2
           /\ processed_lines_data[k - 2].type # ClassifiedRecords[k - 1].type
           /\ preamble_clause_start(processed_lines_data[k].text)

(***************************************************************************)
(* C23  Preamble context is contiguous                                     *)
(***************************************************************************)
\* the classified types of the records created so far
CreatedTypes ==
    [k \in 1..Len(processed_lines_data) |-> ClassifiedRecords[k].type]

\* in every state: a PREAMBLE_CLAUSE record is not the first record and the
\* record created right before it is PREAMBLE_HEAD, PREAMBLE_INTRO or
\* PREAMBLE_CLAUSE; between a record of another type and a later
\* PREAMBLE_CLAUSE record lies a PREAMBLE_HEAD or PREAMBLE_INTRO record
C23_ClauseFollowsPreamble ==
    /\ Len(processed_lines_data) <= Len(ClassifiedRecords)
    /\ \A k \in 1..Len(processed_lines_data) :
           CreatedTypes[k] = LT_PREAMBLE_CLAUSE =>
               /\ k > 1
               /\ CreatedTypes[k - 1] \in PreambleTypes
               /\ \A j \in 1..(k - 1) :
                      CreatedTypes[j] \notin PreambleTypes =>
                          \E m \in (j + 1)..(k - 1) :
                              CreatedTypes[m] \in {LT_PREAMBLE_HEAD, LT_PREAMBLE_INTRO}

\* a step of the classification loop that creates a PREAMBLE_CLAUSE record
\* creates one record, and the previous type it read is a preamble type and
\* the type of the record created last
C23_ClauseCreation ==
    (/\ pc = "classify"
     /\ Len(processed_lines_data') > Len(processed_lines_data)
     /\ processed_lines_data'[Len(processed_lines_data')].type = LT_PREAMBLE_CLAUSE) =>
    (/\ Len(processed_lines_data') = Len(processed_lines_data) + 1
     /\ last_line_type_identified \in PreambleTypes
     /\ processed_lines_data # <<>>
     /\ processed_lines_data[Len(processed_lines_data)].type = last_line_type_identified)

\* C23: a record is classified PREAMBLE_CLAUSE only if the record created
\* immediately before it has classified type PREAMBLE_HEAD, PREAMBLE_INTRO or
\* PREAMBLE_CLAUSE; once a record of another type has been created, no later
\* record is PREAMBLE_CLAUSE until a new PREAMBLE_HEAD or PREAMBLE_INTRO
\* record occurs.
C23_PreambleContiguous ==
    /\ []C23_ClauseFollowsPreamble
    /\ [][C23_ClauseCreation]_vars

\* a preamble was opened and a clause classified in it; the record of another
\* type created next ended the context
C23_Witness ==
    /\ pc = "marker"
    /\ Len(processed_lines_data) = 3
    /\ processed_lines_data[1].type = LT_PREAMBLE_HEAD
    /\ processed_lines_data[2].type = LT_PREAMBLE_CLAUSE
    /\ processed_lines_data[3].type \notin PreambleTypes

\* a preamble was opened and closed by a record of another type; the line of
\* clause shape read next is no PREAMBLE_CLAUSE
C23_BrokenContextWitness ==
    /\ pc = "marker"
    /\ Len(processed_lines_data) = 3
    /\ processed_lines_data[1].type = LT_PREAMBLE_HEAD
    /\ processed_lines_data[2].type \notin PreambleTypes
    /\ preamble_clause_start(processed_lines_data[3].text)
    /\ processed_lines_data[3].type # LT_PREAMBLE_CLAUSE

(***************************************************************************)
(* C24  Numbered-paragraph-head rule                                       *)
(***************************************************************************)
\* a Roman numeral followed by a period, as in 'IV.'
IsRomanDot(w) ==
    /\ Len(w) >= 2
    /\ Ch(w, Len(w)) = "."
    /\ AllIn(w, 1, Len(w) - 1, CharsOf("IVXLCDM"))

\* the classification loop is over and the merge passes have not begun: the
\* records hold the types identify_line_type returned
Classified == pc = "marker"

\* the records of the lines that were not split
WholeLineRecords ==
    {k \in 1..Len(processed_lines_data) : ~processed_lines_data[k].was_split}

\* C24 as stated: a marker-only line consisting of a Roman numeral followed
\* by a period ('IV.') or of digits followed by a period ('3.') is classified
\* NUMBERED_PARA_HEAD.
C24_ParaHeadRule ==
    Classified =>
        \A k \in WholeLineRecords :
            (IsRomanDot(processed_lines_data[k].text)
                 \/ IsNumberDot(processed_lines_data[k].text)) =>
                processed_lines_data[k].type = LT_NUMBERED_PARA_HEAD

\* C24, what the code does: digits followed by a period are classified
\* NUMBERED_PARA_HEAD, while a Roman numeral followed by a period is taken by
\* the enumeration-marker rule, which is asked first, and is classified
\* ENUM_MARKER.
C24_RomanIsEnumMarker ==
    Classified =>
        \A k \in WholeLineRecords :
            /\ IsNumberDot(processed_lines_data[k].text) =>
                   processed_lines_data[k].type = LT_NUMBERED_PARA_HEAD
            /\ IsRomanDot(processed_lines_data[k].text) =>
                   processed_lines_data[k].type = LT_ENUM_MARKER

\* a Roman numeral line and a digits line have been classified
C24_Witness ==
    /\ Classified
    /\ \E k \in WholeLineRecords : IsRomanDot(processed_lines_data[k].text)
    /\ \E k \in WholeLineRecords : IsNumberDot(processed_lines_data[k].text)

(***************************************************************************)
(* C25  Bare-number-marker rule                                            *)
(***************************************************************************)
\* a parenthesised number, as in '(2)'
IsParenNumber(w) ==
    /\ Len(w) >= 3
    /\ Ch(w, 1) = "("
    /\ Ch(w, Len(w)) = ")"
    /\ AllIn(w, 2, Len(w) - 1, Digit)

\* a bare numeric marker: groups of digits, a period after each, as in '1.'
\* and '1.2.'
IsDottedNumber(w) ==
    /\ Len(w) >= 2
    /\ AllIn(w, 1, Len(w), Digit \cup {"."})
    /\ Ch(w, 1) \in Digit
    /\ Ch(w, Len(w)) = "."
    /\ \A k \in 1..(Len(w) - 1) : ~(Ch(w, k) = "." /\ Ch(w, k + 1) = ".")

\* C25 as stated: a marker-only line that is a bare numeric marker or a
\* parenthesised number ('1.' alone, '(2)' alone) is classified NUM_MARKER.
C25_BareNumberIsNumMarker ==
    Classified =>
        \A k \in WholeLineRecords :
            (IsDottedNumber(processed_lines_data[k].text)
                 \/ IsParenNumber(processed_lines_data[k].text)) =>
                processed_lines_data[k].type = LT_NUM_MARKER

\* C25 amended: a marker-only line that is a parenthesised number ('(2)') or
\* a numeric marker of more than one group ('1.2.') is classified NUM_MARKER;
\* one group of digits and a period ('1.', '3.') is classified
\* NUMBERED_PARA_HEAD, the rule asked before.
C25_NumMarkerRule ==
    Classified =>
        \A k \in WholeLineRecords :
            /\ (IsParenNumber(processed_lines_data[k].text)
                    \/ (/\ IsDottedNumber(processed_lines_data[k].text)
                        /\ ~IsNumberDot(processed_lines_data[k].text))) =>
                   processed_lines_data[k].type = LT_NUM_MARKER
            /\ IsNumberDot(processed_lines_data[k].text) =>
                   processed_lines_data[k].type = LT_NUMBERED_PARA_HEAD

\* a parenthesised number and a single number with its period have been
\* classified
C25_Witness ==
    /\ Classified
    /\ \E k \in WholeLineRecords :
           /\ IsParenNumber(processed_lines_data[k].text)
           /\ processed_lines_data[k].type = LT_NUM_MARKER
    /\ \E k \in WholeLineRecords :
           /\ IsNumberDot(processed_lines_data[k].text)
           /\ processed_lines_data[k].type = LT_NUMBERED_PARA_HEAD

(***************************************************************************)
(* C26  Case of the preamble head and intro tokens                         *)
(***************************************************************************)
\* the preamble-intro tokens, in lower case
IntroTokensLower == {str_lower(phrase) : phrase \in PREAMBLE_INTRO_PHRASES}

\* C26 as stated: a line whose trimmed text equals the preamble-head token or
\* a preamble-intro token ignoring case ('PREAMBLE', 'preamble', 'Members,',
\* 'MEMBERS,') is classified PREAMBLE_HEAD or PREAMBLE_INTRO respectively,
\* whatever the previous type.
C26_CaseInsensitiveTokens ==
    Classified =>
        \A k \in WholeLineRecords :
            /\ str_lower(processed_lines_data[k].text) = "preamble" =>
                   processed_lines_data[k].type = LT_PREAMBLE_HEAD
            /\ str_lower(processed_lines_data[k].text) \in IntroTokensLower =>
                   processed_lines_data[k].type = LT_PREAMBLE_INTRO

\* C26, what the code does: the head token is matched ignoring case, an intro
\* token only in the case it is written in; an intro token in another case is
\* PREAMBLE_CLAUSE in preamble context and REGULAR otherwise.
C26_IntroIsCaseSensitive ==
    Classified =>
        \A k \in WholeLineRecords :
            /\ str_lower(processed_lines_data[k].text) = "preamble" =>
                   processed_lines_data[k].type = LT_PREAMBLE_HEAD
            /\ processed_lines_data[k].text \in PREAMBLE_INTRO_PHRASES =>
                   processed_lines_data[k].type = LT_PREAMBLE_INTRO
            /\ (/\ str_lower(processed_lines_data[k].text) \in IntroTokensLower
                /\ processed_lines_data[k].text \notin PREAMBLE_INTRO_PHRASES) =>
                   processed_lines_data[k].type =
                       IF k > 1 /\ processed_lines_data[k - 1].type \in PreambleTypes
                       THEN LT_PREAMBLE_CLAUSE ELSE LT_REGULAR

\* an upper-case head token and an upper-case intro token have been
\* classified, the second in preamble context
C26_Witness ==
    /\ Classified
    /\ Len(processed_lines_data) = 2
    /\ processed_lines_data[1].text = "PREAMBLE"
    /\ processed_lines_data[1].type = LT_PREAMBLE_HEAD
    /\ processed_lines_data[2].text = "MEMBERS,"
    /\ processed_lines_data[2].type = LT_PREAMBLE_CLAUSE

(***************************************************************************)
(* C27  Record creation and retention                                      *)
(***************************************************************************)
\* the number of records the claim gives input line n: none for a blank or
\* digits-only line, two for a split-repaired line, one otherwise
RecordsClaimedTable ==
    [line \in Vocabulary \cup WideVocabulary |->
        IF IsBlankOrPageNumber(line) THEN 0
        ELSE IF SplitShape(line) THEN 2
        ELSE 1]

RecordsClaimedFor(n) == RecordsClaimedTable[raw_lines_unicode[n]]

\* the split-repaired lines among the lines gone through
SplitLinesRead == {n \in ClassifiedLines : RecordsClaimedFor(n) = 2}

\* the lines gone through that are neither blank nor digits only
KeptLinesRead == {n \in ClassifiedLines : RecordsClaimedFor(n) > 0}

\* in every state: every line gone through has the claimed number of records,
\* no other line has one, the records stand in input order, and their number
\* is the number of non-blank, non-digits-only lines plus the number of split
\* lines; in the finished output every non-merged record has its line
C27_RecordCount ==
    /\ \A n \in 1..Len(raw_lines_unicode) :
           Cardinality(RecordsOfLine(n)) =
               IF n \in ClassifiedLines THEN RecordsClaimedFor(n) ELSE 0
    /\ \A k \in 1..Len(processed_lines_data) :
           processed_lines_data[k].original_index \in 0..(Len(raw_lines_unicode) - 1)
    /\ \A k \in 1..(Len(processed_lines_data) - 1) :
           processed_lines_data[k].original_index
               <= processed_lines_data[k + 1].original_index
    /\ Len(processed_lines_data) =
           Cardinality(KeptLinesRead) + Cardinality(SplitLinesRead)
    /\ Done => OneLinePerRecord

\* a step taken after the classification has ended adds, deletes and moves no
\* record: the list keeps its length, every record its line of origin, its
\* split flag, its heading flag and the start of its text, and a record
\* merged away stays merged away
C27_Retention ==
    pc # "classify" =>
        /\ Len(processed_lines_data') = Len(processed_lines_data)
        /\ \A k \in 1..Len(processed_lines_data) :
               /\ processed_lines_data'[k].original_index =
                      processed_lines_data[k].original_index
               /\ processed_lines_data'[k].was_split = processed_lines_data[k].was_split
               /\ processed_lines_data'[k].is_heading = processed_lines_data[k].is_heading
               /\ startswith(processed_lines_data'[k].text, processed_lines_data[k].text)
               /\ processed_lines_data[k].merged_into_prev =>
                      processed_lines_data'[k] = processed_lines_data[k]

\* C27: the number of records equals the number of non-blank,
\* non-digits-only input lines plus the number of split-repaired lines (one
\* record per line, two per split line, in input order with non-decreasing
\* original_index); after the classification has ended no record is added,
\* deleted or reordered: the merge passes leave length and order unchanged and
\* remove a record by merged_into_prev only, which the formatter skips.
C27_RecordCreationAndRetention ==
    /\ []C27_RecordCount
    /\ [][C27_Retention]_vars

\* the output is finished for an input with a dropped line, a split line and
\* one more line: three records
C27_Witness ==
    /\ Done
    /\ \E n \in 1..Len(raw_lines_unicode) : RecordsClaimedFor(n) = 0
    /\ \E n \in 1..Len(raw_lines_unicode) : RecordsClaimedFor(n) = 2
    /\ Len(processed_lines_data) = 3

\* the output is finished for an input with a dropped line; a record was
\* merged away and has no line in the output
C27_MergedWitness ==
    /\ Done
    /\ \E n \in 1..Len(raw_lines_unicode) : RecordsClaimedFor(n) = 0
    /\ Len(processed_lines_data) = 2
    /\ processed_lines_data[2].merged_into_prev
    /\ Len(TextLineIndices(OutLines, 1)) = 1

(***************************************************************************)
(* C28  No merge chains                                                    *)
(***************************************************************************)
\* the text record k holds when it absorbed nothing, and when it absorbed
\* the record after it
OwnText(k) == ClassifiedRecords[k].text

TextWithNext(k) == ClassifiedRecords[k].text \o " " \o ClassifiedRecords[k + 1].text

\* in every state: a record that absorbed has absorbed exactly the record
\* after it, which is merged away, and is not merged away itself; a record
\* that did not absorb holds its own text; a record merged away was absorbed
\* by the record before it and absorbed nothing
C28_AtMostTwoTexts ==
    \A k \in 1..Len(processed_lines_data) :
        /\ processed_lines_data[k].consumes_next =>
               /\ k < Len(processed_lines_data)
               /\ processed_lines_data[k + 1].merged_into_prev
               /\ ~processed_lines_data[k].merged_into_prev
               /\ processed_lines_data[k].text = TextWithNext(k)
        /\ ~processed_lines_data[k].consumes_next =>
               processed_lines_data[k].text = OwnText(k)
        /\ processed_lines_data[k].merged_into_prev =>
               /\ k > 1
               /\ processed_lines_data[k - 1].consumes_next
               /\ ~processed_lines_data[k].consumes_next

\* a record is touched by the step
Touched(k) == processed_lines_data'[k] # processed_lines_data[k]

\* a step of a merge pass that touches the records merges one fresh record d
\* into the record h under the index of the pass: before the step neither of
\* them was merged away or had absorbed, and no other record is touched
C28_OneFreshPair ==
    (/\ pc \in {"marker", "heading"}
     /\ processed_lines_data' # processed_lines_data) =>
    (/\ Len(processed_lines_data') = Len(processed_lines_data)
     /\ i + 1 <= Len(processed_lines_data)
     /\ \A k \in 1..Len(processed_lines_data) : Touched(k) => k \in {i, i + 1}
     /\ ~processed_lines_data[i].merged_into_prev
     /\ ~processed_lines_data[i].consumes_next
     /\ ~processed_lines_data[i + 1].merged_into_prev
     /\ ~processed_lines_data[i + 1].consumes_next
     /\ processed_lines_data'[i].consumes_next
     /\ processed_lines_data'[i + 1].merged_into_prev)

\* in the finished output the line of every emitted record holds the text of
\* that record alone, or of that record and the one it absorbed
C28_LinesOfAtMostTwoRecords ==
    Done =>
        \A k \in 1..Len(processed_lines_data) :
            ~processed_lines_data[k].merged_into_prev =>
                OutLines[LineOf(EmittedRank(k))] =
                    emitted_text(processed_lines_data[k].type,
                                 IF processed_lines_data[k].consumes_next
                                 THEN TextWithNext(k) ELSE OwnText(k))

\* C28: across both merge passes every record is absorbed at most once and
\* absorbs at most one record, a record absorbed by a marker is never offered
\* again to the heading pass, and no record that absorbed another is itself
\* absorbed; every emitted output line consists of the text of at most two
\* records.
C28_NoMergeChains ==
    /\ [](C28_AtMostTwoTexts /\ C28_LinesOfAtMostTwoRecords)
    /\ [][C28_OneFreshPair]_vars

\* the output is finished; a heading absorbed its description and the
\* record after the two is emitted by itself
C28_Witness ==
    /\ Done
    /\ Len(processed_lines_data) = 3
    /\ processed_lines_data[1].is_heading
    /\ processed_lines_data[1].consumes_next
    /\ processed_lines_data[2].merged_into_prev
    /\ Len(TextLineIndices(OutLines, 1)) = 2

\* the heading pass is over; a marker after a heading absorbed its text in
\* the marker pass, and the heading pass left the heading alone
C28_MarkerThenHeadingWitness ==
    /\ pc = "format"
    /\ Len(processed_lines_data) = 3
    /\ processed_lines_data[1].is_heading
    /\ ~processed_lines_data[1].consumes_next
    /\ processed_lines_data[2].consumes_next
    /\ processed_lines_data[3].merged_into_prev

(***************************************************************************)
(* C29  Blank-line structure of the output                                 *)
(***************************************************************************)
\* the types before which the formatter places empty lines
BlankForcingTypes == TwoBlankTypes \cup {LT_NUMBERED_PARA_HEAD}

\* the first line after line idx of the output that is not empty, 0 if none
NextTextLine(idx) ==
    LET S == {t \in (idx + 1)..Len(output_lines) : output_lines[t] # ""}
    IN  IF S = {} THEN 0 ELSE MinOf(S)

\* the number of non-empty lines among the first t lines of the output
TextRank(t) == Cardinality({u \in 1..t : output_lines[u] # ""})

\* C29: a non-empty output never ends with an empty line and never contains
\* more than two consecutive empty lines; every empty line of the output
\* belongs to a run that stands directly before the line of a record of a
\* blank-forcing type (PREAMBLE_HEAD, TRANSITIONAL, HEADING_UPPER,
\* HEADING_TITLE, FOOTNOTE_BLOCK, NUMBERED_PARA_HEAD).
C29_BlankLineStructure ==
    /\ output_lines # <<>> => output_lines[Len(output_lines)] # ""
    /\ \A idx \in 1..(Len(output_lines) - 2) :
           ~ /\ output_lines[idx] = ""
             /\ output_lines[idx + 1] = ""
             /\ output_lines[idx + 2] = ""
    /\ \A idx \in 1..Len(output_lines) :
           output_lines[idx] = "" =>
               /\ NextTextLine(idx) # 0
               /\ TextRank(NextTextLine(idx)) <= Len(Emitted)
               /\ Emitted[TextRank(NextTextLine(idx))].type \in BlankForcingTypes

\* the output is finished and holds a run of two empty lines, a run of one
\* and a line with no empty line before it
C29_Witness ==
    /\ Done
    /\ Len(output_lines) >= 4
    /\ \E t \in 1..Len(output_lines) :
           output_lines[t] # "" /\ BlankRunBefore(output_lines, t) = 2
    /\ \E t \in 1..Len(output_lines) :
           output_lines[t] # "" /\ BlankRunBefore(output_lines, t) = 1
    /\ \E t \in 2..Len(output_lines) :
           output_lines[t] # "" /\ BlankRunBefore(output_lines, t) = 0

(***************************************************************************)
(* C30  Result consistency of the correction loop                          *)
(***************************************************************************)
\* process_document has returned its ProcessResult
Returned == pipeline_pc = "returned"

\* the statuses the claim accepts under the configuration of the run
C30_AcceptedStatus(status) ==
    \/ status \in {"perfect", "excellent"}
    \/ status = "warning" /\ config.auto_accept_minor_issues

\* C30: in every ProcessResult returned by process_document, review_result
\* is the review of the returned final_content and validation_result is the
\* assessment of that review, on every exit path of the loop (accepted
\* status, unchanged correction, iteration limit); success is true exactly
\* when the status of that validation is PERFECT or EXCELLENT, or is WARNING
\* while auto_accept_minor_issues is set.
C30_ResultConsistency ==
    Returned =>
        /\ process_result.final_content \in Documents
        /\ process_result.review_result = ReviewTable[process_result.final_content]
        /\ process_result.validation_result = assess(process_result.review_result)
        /\ process_result.success \in BOOLEAN
        /\ process_result.success <=>
               C30_AcceptedStatus(process_result.validation_result.status)

\* returned on the accepted path after a correction: the final content is not
\* the input, its review differs from the review of the input
C30_Witness ==
    /\ Returned
    /\ process_result.iterations > 0
    /\ process_result.success
    /\ process_result.final_content # content
    /\ process_result.review_result # ReviewTable[content]

\* returned because the corrector changed nothing: not accepted, below the
\* limit, after a correction that was kept
C30_UnchangedExitWitness ==
    /\ Returned
    /\ ~process_result.success
    /\ process_result.iterations > 0
    /\ process_result.iterations < config.max_correction_iterations
    /\ process_result.final_content # content

\* returned at the iteration limit, not accepted
C30_LimitExitWitness ==
    /\ Returned
    /\ ~process_result.success
    /\ process_result.iterations > 0
    /\ process_result.iterations = config.max_correction_iterations
    /\ process_result.final_content # content
=============================================================================
